---- MODULE Spec2Model ----
(***************************************************************************)
(* Deadline ingestion pipeline of the college-application manager:         *)
(*   - college_rounds reconciliation by the HTML crawl (processCollege)    *)
(*     and the PDF import (importFromPdf), interleaved with the            *)
(*     administrator routes of the backend (upsert, update, confirm,       *)
(*     delete);                                                            *)
(*   - the crawl orchestrator (runCrawler, runCrawlerForMissingColleges),  *)
(*     its crawl_logs bookkeeping and the crawler service around it        *)
(*     (initialize, cleanupStaleCrawlLogs, executeCrawl, the cron tick);   *)
(*   - the backend trigger POST /api/crawler/run and its isRunning flag.   *)
(* Every await of the source is a point where other handlers may run, so   *)
(* each action below is the code between two awaits.                       *)
(***************************************************************************)
EXTENDS Integers, FiniteSets, Sequences, TLC

(***************************************************************************)
(* Bounds of the model.                                                    *)
(***************************************************************************)
MaxRoundId == 2     \* college_rounds ids handed out by the SERIAL sequence
MaxColleges == 11   \* rows the target query of a crawl returns, at most
MaxRuns == 2        \* invocations of runCrawler by the cron schedule
MaxSvcColleges == 1 \* target rows when crawls may overlap (SpecSvc)
MaxTicks == 1       \* minutes the clock advances after the initial instant
MaxRequests == 3    \* POST /api/crawler/run requests
MaxYears == 2       \* calendar years a date is drawn from
MaxCycleColleges == 2 \* rows of table colleges in the target queries
MaxCandidates == 3  \* deadlines parsed from the PDF

(***************************************************************************)
(* Program constants.                                                      *)
(***************************************************************************)
STALE_MINUTES == 30 \* INTERVAL '30 minutes' of cleanupStaleCrawlLogs
CONCURRENCY == 10   \* const CONCURRENCY = 10: the batch size
PDF_MIN_DEADLINES == 50 \* if (totalDeadlines < 50) of shouldImportPdf
OPERATION_TIMEOUT_MIN == 15 \* OPERATION_TIMEOUT_MS = 15 * 60 * 1000, in minutes

NULL == "NULL"

\* Domains of the columns of college_rounds the pipeline reads or writes.
CollegeIds == {1}
RoundTypes == {"RD"}
Cycles == {"2025-2026"}
Dates == {"2025-11-01", "2026-01-01"}
DecisionDates == {"2026-04-01"}

HtmlWorkers == {"h1"}
PdfWorkers == {"p1"}
Ingestors == HtmlWorkers \cup PdfWorkers

\* The instant the model starts at: late enough for a crawl_logs row to be
\* older than the staleness threshold.
StartNow == STALE_MINUTES + 1

VARIABLES
  now,             \* the database clock NOW(), in minutes
  college_rounds,  \* table college_rounds: a set of rows
  nextRoundId,     \* the sequence behind college_rounds.id
  ipc,             \* per ingestion worker: "idle" or "write" (after the SELECT)
  cand,            \* per ingestion worker: the candidate being reconciled
  existing,        \* per ingestion worker: the result of its SELECT
  last,            \* observer: the ingestion statement the last step ran
  chain,           \* observer: sequential reconciliations since the empty store
  crawl_logs,      \* table crawl_logs: a set of rows
  nextLogId,       \* the sequence behind crawl_logs.id
  nTargets,        \* number of rows the target query of a crawl returns
  call,            \* arguments and results of the function calls under study
  run,             \* per invocation of a crawl: its position and locals
  svc,             \* the crawler service: position of initialize, cleanup
  isRunning,       \* backend routes/crawler.ts: let isRunning
  req              \* per POST /api/crawler/run request: position, response

recVars == <<college_rounds, nextRoundId, ipc, cand, existing, last, chain>>
logVars == <<crawl_logs, nextLogId>>
httpVars == <<isRunning, req>>
cfgVars == <<nTargets, call>>

vars == <<now, college_rounds, nextRoundId, ipc, cand, existing, last, chain,
          crawl_logs, nextLogId, nTargets, call, run, svc, isRunning, req>>

(***************************************************************************)
(* Table college_rounds and the statements run against it.                 *)
(***************************************************************************)
RoundColumns == {"id", "college_id", "round_type", "cycle", "deadline_date",
                 "decision_date", "source", "admin_confirmed", "last_crawled_at"}

NoRow == [id |-> 0, college_id |-> 0, round_type |-> NULL, cycle |-> NULL,
          deadline_date |-> NULL, decision_date |-> NULL, source |-> NULL,
          admin_confirmed |-> FALSE, last_crawled_at |-> 0]

SameKey(x, c, r, y) == x.college_id = c /\ x.round_type = r /\ x.cycle = y

\* SELECT ... WHERE college_id = $1 AND round_type = $2 AND cycle = $3
SelectByKey(rows, c, r, y) == {x \in rows : SameKey(x, c, r, y)}

\* SELECT ... WHERE id = $1
SelectById(rows, id) == {x \in rows : x.id = id}

RowOr(sel) == IF sel = {} THEN NoRow ELSE CHOOSE x \in sel : TRUE

NotFound == [found |-> FALSE, id |-> 0, deadline_date |-> NULL,
             admin_confirmed |-> FALSE]

\* SELECT id, deadline_date, admin_confirmed: existingResult.rows.length > 0
\* and existingResult.rows[0]
SelectResult(rows, c, r, y) ==
  LET sel == SelectByKey(rows, c, r, y)
  IN  IF sel = {} THEN NotFound
      ELSE [found |-> TRUE, id |-> RowOr(sel).id,
            deadline_date |-> RowOr(sel).deadline_date,
            admin_confirmed |-> RowOr(sel).admin_confirmed]

\* UPDATE college_rounds SET <asg> WHERE id = $n
Assign(x, asg) ==
  [f \in DOMAIN x |-> IF f \in DOMAIN asg THEN asg[f] ELSE x[f]]

UpdateWhereId_Delete(rows, id, asg) == {x \in rows : x.id # id}

\* UPDATE <table> SET <asg> WHERE id = <id>
UpdateWhereId(rows, id, asg) ==
  {IF x.id = id THEN Assign(x, asg) ELSE x : x \in rows}

UniqueViolation_Off(rows, c, r, y) == FALSE

\* UNIQUE(college_id, round_type, cycle)
UniqueViolation(rows, c, r, y) == SelectByKey(rows, c, r, y) # {}

NewRound(id, c, r, y, date, decision, source, confirmed, crawled) ==
  [id |-> id, college_id |-> c, round_type |-> r, cycle |-> y,
   deadline_date |-> date, decision_date |-> decision, source |-> source,
   admin_confirmed |-> confirmed, last_crawled_at |-> crawled]

(***************************************************************************)
(* Reconciliation on the HTML path: processCollege, one round of its loop. *)
(***************************************************************************)
HtmlShouldUpdate_NoLock(ex, date) == ex.deadline_date # date

\* if (!existing.admin_confirmed && existing.deadline_date !== data.deadline_date)
HtmlShouldUpdate(ex, date) ==
  ~ex.admin_confirmed /\ ex.deadline_date # date

\* The branch the HTML path takes after its SELECT.
HtmlDecision(ex, date) ==
  IF ex.found
  THEN IF HtmlShouldUpdate(ex, date) THEN "update"
       ELSE IF ex.admin_confirmed THEN "skip"
       ELSE "refresh"
  ELSE "insert"

HtmlUpdateAsg(date, t) ==
  [deadline_date |-> date, source |-> "CRAWLER", admin_confirmed |-> FALSE,
   last_crawled_at |-> t]

RefreshAsg(t) == [last_crawled_at |-> t]

(***************************************************************************)
(* Reconciliation on the PDF path: importFromPdf, one deadline of its loop.*)
(***************************************************************************)
\* if (!row.admin_confirmed)
PdfShouldUpdate(ex, date) == ~ex.admin_confirmed

\* The branch the PDF path takes after its SELECT.
PdfDecision(ex, date) ==
  IF ex.found
  THEN IF PdfShouldUpdate(ex, date) THEN "update" ELSE "skip"
  ELSE "insert"

PdfUpdateAsg(date, t) ==
  [deadline_date |-> date, source |-> "CRAWLER", last_crawled_at |-> t]

Decision(w, ex, date) ==
  IF w \in HtmlWorkers THEN HtmlDecision(ex, date) ELSE PdfDecision(ex, date)

UpdateAsg(w, date, t) ==
  IF w \in HtmlWorkers THEN HtmlUpdateAsg(date, t) ELSE PdfUpdateAsg(date, t)

Idle(w) == ipc[w] = "idle"

NoCand == [college_id |-> 0, round_type |-> NULL, cycle |-> NULL,
           deadline_date |-> NULL]

Candidate(c, r, y, date) ==
  [college_id |-> c, round_type |-> r, cycle |-> y, deadline_date |-> date]

\* Observer of the last step, when it was the statement (or the skip) that
\* ends a reconciliation: who ran it, the branch taken, the columns the
\* statement assigned, the SELECT result it acted on, the candidate, and
\* the row the statement addressed as it was stored just before.
NoLast == [w |-> "none", kind |-> "none", cols |-> {}, ex |-> NotFound,
           c |-> NoCand, before |-> NoRow]

\* Observer of sequential reconciliation: since the store was empty, n whole
\* reconciliations of candidate c have run one after the other and nothing
\* else has touched the store; cols are the columns the last one assigned.
NoChain == [n |-> 0, owner |-> "none", c |-> NoCand, cols |-> {}]

ChainAtSelect(w, c) ==
  IF \A v \in Ingestors \ {w} : Idle(v)
  THEN IF college_rounds = {}
       THEN [n |-> 0, owner |-> w, c |-> c, cols |-> {}]
       ELSE IF chain.n = 1 /\ chain.owner = "none" /\ chain.c = c
            THEN [chain EXCEPT !.owner = w]
            ELSE NoChain
  ELSE NoChain

ChainAtWrite(w, cols) ==
  IF chain.owner = w
  THEN [chain EXCEPT !.n = @ + 1, !.owner = "none", !.cols = cols]
  ELSE NoChain

\* const existingResult = await pool.query(SELECT ...)
Select(w) ==
  /\ Idle(w)
  /\ \E c \in CollegeIds, r \in RoundTypes, y \in Cycles, date \in Dates :
       /\ cand' = [cand EXCEPT ![w] = Candidate(c, r, y, date)]
       /\ existing' = [existing EXCEPT ![w] = SelectResult(college_rounds, c, r, y)]
       /\ chain' = ChainAtSelect(w, Candidate(c, r, y, date))
  /\ ipc' = [ipc EXCEPT ![w] = "write"]
  /\ last' = NoLast
  /\ UNCHANGED <<now, college_rounds, nextRoundId, logVars, cfgVars, run, svc, httpVars>>

\* The end of one reconciliation: the worker goes on to its next candidate.
Finish(w, kind, cols) ==
  /\ ipc' = [ipc EXCEPT ![w] = "idle"]
  /\ cand' = [cand EXCEPT ![w] = NoCand]
  /\ existing' = [existing EXCEPT ![w] = NotFound]
  /\ last' = [w |-> w, kind |-> kind, cols |-> cols, ex |-> existing[w],
              c |-> cand[w],
              before |-> RowOr(SelectById(college_rounds, existing[w].id))]
  /\ chain' = ChainAtWrite(w, cols)
  /\ UNCHANGED <<now, logVars, cfgVars, run, svc, httpVars>>

\* await pool.query(UPDATE ... SET deadline_date = $1, source = 'CRAWLER', ...)
WriteUpdate(w) ==
  /\ ipc[w] = "write"
  /\ Decision(w, existing[w], cand[w].deadline_date) = "update"
  /\ LET asg == UpdateAsg(w, cand[w].deadline_date, now)
     IN  /\ college_rounds' = UpdateWhereId(college_rounds, existing[w].id, asg)
         /\ Finish(w, "update", DOMAIN asg)
  /\ UNCHANGED nextRoundId

\* await pool.query(UPDATE college_rounds SET last_crawled_at = NOW() ...)
WriteRefresh(w) ==
  /\ ipc[w] = "write"
  /\ Decision(w, existing[w], cand[w].deadline_date) = "refresh"
  /\ college_rounds' = UpdateWhereId(college_rounds, existing[w].id, RefreshAsg(now))
  /\ Finish(w, "refresh", DOMAIN RefreshAsg(now))
  /\ UNCHANGED nextRoundId

\* the admin-confirmed branch: no statement
WriteSkip(w) ==
  /\ ipc[w] = "write"
  /\ Decision(w, existing[w], cand[w].deadline_date) = "skip"
  /\ Finish(w, "skip", {})
  /\ UNCHANGED <<college_rounds, nextRoundId>>

\* await pool.query(INSERT INTO college_rounds ... 'CRAWLER', false, NOW())
WriteInsert(w) ==
  /\ ipc[w] = "write"
  /\ Decision(w, existing[w], cand[w].deadline_date) = "insert"
  /\ LET c == cand[w]
     IN  IF UniqueViolation(college_rounds, c.college_id, c.round_type, c.cycle)
         THEN \* the statement throws: caught by the caller, nothing written
              /\ Finish(w, "error", {})
              /\ UNCHANGED <<college_rounds, nextRoundId>>
         ELSE /\ nextRoundId <= MaxRoundId
              /\ college_rounds' = college_rounds \cup
                   {NewRound(nextRoundId, c.college_id, c.round_type, c.cycle,
                             c.deadline_date, NULL, "CRAWLER", FALSE, now)}
              /\ nextRoundId' = nextRoundId + 1
              /\ Finish(w, "insert", RoundColumns)

(***************************************************************************)
(* The administrator routes of the backend; each is one statement.         *)
(***************************************************************************)
\* deadline_date || null, decision_date || null
OrNull(x) == IF x = "" THEN NULL ELSE x

\* admin_confirmed ?? true
OrTrue(flag) == IF flag = "undefined" THEN TRUE ELSE flag = "true"

\* COALESCE($3, admin_confirmed)
Coalesce(flag, old) == IF flag = "undefined" THEN old ELSE flag = "true"

AdminLeaves ==
  /\ last' = NoLast
  /\ chain' = NoChain
  /\ UNCHANGED <<now, ipc, cand, existing, logVars, cfgVars, run, svc, httpVars>>

\* POST /:id/rounds: INSERT ... ON CONFLICT (college_id, round_type, cycle) DO UPDATE
AdminUpsert ==
  /\ \E c \in CollegeIds, r \in RoundTypes, y \in Cycles,
        date \in Dates \cup {""}, decision \in DecisionDates \cup {""},
        flag \in {"undefined", "true", "false"} :
       IF UniqueViolation(college_rounds, c, r, y)
       THEN /\ college_rounds' =
                 {IF SameKey(x, c, r, y)
                  THEN Assign(x, [deadline_date |-> OrNull(date),
                                  decision_date |-> OrNull(decision),
                                  source |-> "ADMIN",
                                  admin_confirmed |-> OrTrue(flag)])
                  ELSE x : x \in college_rounds}
            /\ UNCHANGED nextRoundId
       ELSE /\ nextRoundId <= MaxRoundId
            /\ college_rounds' = college_rounds \cup
                 {NewRound(nextRoundId, c, r, y, OrNull(date), OrNull(decision),
                           "ADMIN", OrTrue(flag), 0)}
            /\ nextRoundId' = nextRoundId + 1
  /\ AdminLeaves

\* PUT /:id/rounds/:roundId
AdminUpdate ==
  /\ \E x \in college_rounds, date \in Dates \cup {""},
        decision \in DecisionDates \cup {""},
        flag \in {"undefined", "true", "false"} :
       college_rounds' = UpdateWhereId(college_rounds, x.id,
         [deadline_date |-> OrNull(date), decision_date |-> OrNull(decision),
          admin_confirmed |-> Coalesce(flag, x.admin_confirmed),
          source |-> "ADMIN"])
  /\ UNCHANGED nextRoundId
  /\ AdminLeaves

\* POST /rounds/:roundId/confirm
AdminConfirm ==
  /\ \E x \in college_rounds :
       college_rounds' = UpdateWhereId(college_rounds, x.id,
         [admin_confirmed |-> TRUE, source |-> "ADMIN"])
  /\ UNCHANGED nextRoundId
  /\ AdminLeaves

\* DELETE /:id/rounds/:roundId
AdminDelete ==
  /\ \E x \in college_rounds : college_rounds' = college_rounds \ {x}
  /\ UNCHANGED nextRoundId
  /\ AdminLeaves

InitRounds ==
  /\ college_rounds = {}
  /\ nextRoundId = 1
  /\ ipc = [w \in Ingestors |-> "idle"]
  /\ cand = [w \in Ingestors |-> NoCand]
  /\ existing = [w \in Ingestors |-> NotFound]
  /\ last = NoLast
  /\ chain = NoChain

NextRec ==
  \/ \E w \in Ingestors : Select(w)
  \/ \E w \in Ingestors : WriteUpdate(w)
  \/ \E w \in Ingestors : WriteRefresh(w)
  \/ \E w \in Ingestors : WriteSkip(w)
  \/ \E w \in Ingestors : WriteInsert(w)
  \/ AdminUpsert
  \/ AdminUpdate
  \/ AdminConfirm
  \/ AdminDelete

(***************************************************************************)
(* Table crawl_logs.  details is kept as what the pipeline tells apart:    *)
(* NULL, the counts object, or an object with an "error" key.              *)
(***************************************************************************)
\* INSERT INTO crawl_logs (run_started_at, colleges_attempted,
\*   colleges_successful, colleges_failed) VALUES ($1, 0, 0, 0)
NewLog(id, started) ==
  [id |-> id, run_started_at |-> started, run_finished_at |-> 0,
   colleges_attempted |-> 0, colleges_successful |-> 0, colleges_failed |-> 0,
   details |-> NULL]

LogById(id) == CHOOSE x \in crawl_logs : x.id = id

(***************************************************************************)
(* The crawl orchestrator: runCrawler (mode "full") and                    *)
(* runCrawlerForMissingColleges (mode "missing").                          *)
(***************************************************************************)
RunIds == 1..MaxRuns

\* caught counts the executions of processCollege's catch block.
IdleRun == [pc |-> "idle", mode |-> "none", startTime |-> 0, logId |-> 0,
            completed |-> 0, successful |-> 0, failed |-> 0, i |-> 0, n |-> 0,
            st |-> <<>>, outcome |-> "none", caught |-> 0,
            deadline |-> 0, timedOut |-> FALSE, sentAtTimeout |-> 0]

\* colleges.slice(i, i + CONCURRENCY), as positions 1..n of the target list
Batch(i, n) == {k \in 1..n : i < k /\ k <= i + CONCURRENCY}

InFlight(rn) == {k \in 1..rn.n : rn.st[k] = "inflight"}

AllResolved_NoWait(rn) == TRUE

\* await Promise.all(batch.map(processCollege)): every promise has settled
AllResolved(rn) == InFlight(rn) \cap Batch(rn.i, rn.n) = {}

\* for (const result of results) { completed++; ... }
CompletedIn(st, batch) == Cardinality(batch)

\* if (result.success) successful++
SuccessfulIn(st, batch) == Cardinality({k \in batch : st[k] = "ok"})

FailedIn_OnlyFirst(st, batch) ==
  IF \E k \in batch : st[k] = "failed" THEN 1 ELSE 0

\* else failed++
FailedIn(st, batch) == Cardinality({k \in batch : st[k] # "ok"})

Running(rn) == rn.pc \notin {"idle", "done"}

\* runCrawler(pool) is called: const startTime = new Date().toISOString()
StartFull(r) ==
  /\ run[r].pc = "idle"
  /\ run' = [run EXCEPT ![r] = [IdleRun EXCEPT !.pc = "insertLog",
                                 !.mode = "full", !.startTime = now]]

\* runCrawlerForMissingColleges(pool, cycle) is called
StartMissing(r) ==
  /\ run[r].pc = "idle"
  /\ run' = [run EXCEPT ![r] = [IdleRun EXCEPT !.pc = "load",
                                 !.mode = "missing", !.startTime = now]]

RunLeaves == UNCHANGED <<now, recVars, cfgVars, svc, httpVars>>

\* the INSERT INTO crawl_logs of runCrawler returns: logId = rows[0].id
InsertLogOk(r) ==
  /\ run[r].pc = "insertLog"
  /\ crawl_logs' = crawl_logs \cup {NewLog(nextLogId, run[r].startTime)}
  /\ nextLogId' = nextLogId + 1
  /\ run' = [run EXCEPT ![r].pc = "load", ![r].logId = nextLogId]
  /\ RunLeaves

\* the INSERT throws: 'Failed to create crawl log entry', throw err
InsertLogFail(r) ==
  /\ run[r].pc = "insertLog"
  /\ run' = [run EXCEPT ![r].pc = "done", ![r].outcome = "rejected"]
  /\ UNCHANGED logVars
  /\ RunLeaves

\* the settings query and the target query return; an empty list of missing
\* colleges makes runCrawlerForMissingColleges return at once
LoadOk(r) ==
  /\ run[r].pc = "load"
  /\ IF run[r].mode = "missing" /\ nTargets = 0
     THEN run' = [run EXCEPT ![r].pc = "done", ![r].outcome = "resolved"]
     ELSE run' = [run EXCEPT ![r].pc = "loop", ![r].n = nTargets,
                             ![r].st = [k \in 1..nTargets |-> "pending"]]
  /\ UNCHANGED logVars
  /\ RunLeaves

\* one of those queries throws: the catch block of the function
LoadFail(r) ==
  /\ run[r].pc = "load"
  /\ IF run[r].mode = "full"
     THEN run' = [run EXCEPT ![r].pc = "catch"]
     ELSE run' = [run EXCEPT ![r].pc = "done", ![r].outcome = "rejected"]
  /\ UNCHANGED logVars
  /\ RunLeaves

\* for (let i = 0; i < colleges.length; i += CONCURRENCY): processBatch starts
\* processCollege for every college of the batch
Dispatch(r) ==
  /\ run[r].pc = "loop"
  /\ run[r].i < run[r].n
  /\ run' = [run EXCEPT ![r].pc = "batch",
               ![r].st = [k \in 1..run[r].n |->
                            IF k \in Batch(run[r].i, run[r].n)
                            THEN "inflight" ELSE run[r].st[k]]]
  /\ UNCHANGED logVars
  /\ RunLeaves

\* What can throw inside the try block of processCollege: the fetch (non-2xx
\* status, timeout, too many redirects) and the statements of reconciliation.
CollegeErrors == {"fetch", "timeout", "redirects", "storage"}

CollegeResult_Success(e) == "ok"

\* return { success: true, ... }; catch (err) { return { success: false, ... } }
CollegeResult(e) == IF e = "none" THEN "ok" ELSE "failed"

\* processCollege of one college returns { success: true } or, from its
\* catch block, { success: false }
Resolve(r) ==
  /\ run[r].pc = "batch"
  /\ \E k \in InFlight(run[r]), e \in {"none"} \cup CollegeErrors :
       run' = [run EXCEPT ![r].st[k] = CollegeResult(e),
                          ![r].caught = @ + (IF e = "none" THEN 0 ELSE 1)]
  /\ UNCHANGED logVars
  /\ RunLeaves

\* The locals of the run after the results of the batch are aggregated.
Aggregated(rn) ==
  LET batch == Batch(rn.i, rn.n)
  IN  [rn EXCEPT !.completed = @ + CompletedIn(rn.st, batch),
                 !.successful = @ + SuccessfulIn(rn.st, batch),
                 !.failed = @ + FailedIn(rn.st, batch),
                 !.st = [k \in 1..rn.n |->
                           IF k \in batch /\ rn.st[k] \in {"ok", "failed"}
                           THEN "done" ELSE rn.st[k]],
                 !.i = @ + CONCURRENCY,
                 !.pc = "loop"]

ProgressAsg(rn) ==
  [colleges_attempted |-> rn.completed,
   colleges_successful |-> rn.successful,
   colleges_failed |-> rn.failed]

\* the batch has settled: its results are aggregated and, in runCrawler, the
\* progress UPDATE of crawl_logs returns; then the pause and the next turn
BatchDone(r) ==
  /\ run[r].pc = "batch"
  /\ AllResolved(run[r])
  /\ run' = [run EXCEPT ![r] = Aggregated(run[r])]
  /\ crawl_logs' =
       IF run[r].mode = "full"
       THEN UpdateWhereId(crawl_logs, run[r].logId, ProgressAsg(Aggregated(run[r])))
       ELSE crawl_logs
  /\ UNCHANGED nextLogId
  /\ RunLeaves

\* the progress UPDATE throws: the catch block of runCrawler
BatchUpdateFail(r) ==
  /\ run[r].pc = "batch"
  /\ run[r].mode = "full"
  /\ AllResolved(run[r])
  /\ run' = [run EXCEPT ![r] = [Aggregated(run[r]) EXCEPT !.pc = "catch"]]
  /\ UNCHANGED logVars
  /\ RunLeaves

FinalizeAsg(rn, details, t) ==
  [run_finished_at |-> t, colleges_attempted |-> rn.completed,
   colleges_successful |-> rn.successful, colleges_failed |-> rn.failed,
   details |-> details]

AfterFinalize_Catch == "catch"

\* what follows await finalizeCrawlLog() in the try block: a log line and
\* the end of the function
AfterFinalize == "done"

\* the loop is over.  runCrawler: await finalizeCrawlLog(), whose UPDATE
\* returns or throws (caught inside finalizeCrawlLog);
\* runCrawlerForMissingColleges: return
Complete(r) ==
  /\ run[r].pc = "loop"
  /\ run[r].i >= run[r].n
  /\ run' = [run EXCEPT ![r].pc = AfterFinalize, ![r].outcome = "resolved"]
  /\ \/ /\ run[r].mode = "full"
        /\ crawl_logs' = UpdateWhereId(crawl_logs, run[r].logId,
                                       FinalizeAsg(run[r], "counts", now))
     \/ UNCHANGED crawl_logs
  /\ UNCHANGED nextLogId
  /\ RunLeaves

\* catch (err) { await finalizeCrawlLog(errorMsg); throw err; }
Fail(r) ==
  /\ run[r].pc = "catch"
  /\ run' = [run EXCEPT ![r].pc = "done", ![r].outcome = "rejected"]
  /\ \/ crawl_logs' = UpdateWhereId(crawl_logs, run[r].logId,
                                    FinalizeAsg(run[r], "error", now))
     \/ UNCHANGED crawl_logs
  /\ UNCHANGED nextLogId
  /\ RunLeaves

RunActions ==
  \/ \E r \in RunIds : InsertLogOk(r)
  \/ \E r \in RunIds : InsertLogFail(r)
  \/ \E r \in RunIds : LoadOk(r)
  \/ \E r \in RunIds : LoadFail(r)
  \/ \E r \in RunIds : Dispatch(r)
  \/ \E r \in RunIds : Resolve(r)
  \/ \E r \in RunIds : BatchDone(r)
  \/ \E r \in RunIds : BatchUpdateFail(r)
  \/ \E r \in RunIds : Complete(r)
  \/ \E r \in RunIds : Fail(r)

\* The orchestrator on its own: one entry point is invoked, once.
InvokeFull ==
  /\ StartFull(1)
  /\ UNCHANGED logVars
  /\ RunLeaves

InvokeMissing ==
  /\ StartMissing(1)
  /\ UNCHANGED logVars
  /\ RunLeaves

\* No function call is under study.
NoCall == [fn |-> "none"]

InitHttp ==
  /\ isRunning = FALSE
  /\ req = [q \in 1..MaxRequests |->
              [pc |-> "new", status |-> 0, busy |-> FALSE, startTime |-> 0,
               logId |-> 0]]

SvcReady == [pc |-> "ready", cleanup |-> "ok", cleanupAt |-> 0, importRun |-> 0]

InitRec ==
  /\ now = StartNow
  /\ InitRounds
  /\ crawl_logs = {}
  /\ nextLogId = 1
  /\ nTargets = 0
  /\ run = [r \in RunIds |-> IdleRun]
  /\ svc = SvcReady
  /\ InitHttp
  /\ call = NoCall


SpecRec == InitRec /\ [][NextRec]_vars

InitRun ==
  /\ now = StartNow
  /\ InitRounds
  /\ crawl_logs = {}
  /\ nextLogId = 1
  /\ nTargets \in 0..MaxColleges
  /\ run = [r \in RunIds |-> IdleRun]
  /\ svc = SvcReady
  /\ InitHttp
  /\ call = NoCall

NextRun == InvokeFull \/ InvokeMissing \/ RunActions

SpecRun == InitRun /\ [][NextRun]_vars

(***************************************************************************)
(* executeCrawl: one crawl under the ceiling timeout of withTimeout.       *)
(***************************************************************************)
\* The colleges of a run that have been handed to processCollege so far.
Dispatched(rn) == Cardinality({k \in 1..rn.n : rn.st[k] # "pending"})

\* await withTimeout(runCrawler(pool), OPERATION_TIMEOUT_MS, ...): runCrawler
\* starts and setTimeout arms the timer
ExecuteCrawl ==
  /\ run[1].pc = "idle"
  /\ run' = [run EXCEPT ![1] = [IdleRun EXCEPT !.pc = "insertLog",
                                 !.mode = "full", !.startTime = now,
                                 !.deadline = now + OPERATION_TIMEOUT_MIN]]
  /\ UNCHANGED logVars
  /\ RunLeaves

\* the timer of withTimeout fires before the promise of runCrawler settled
\* (there is no clearTimeout yet): reject(new Error('... timed out ...')),
\* which executeCrawl catches and logs.  Nothing is said to runCrawler.
TimeoutFires ==
  /\ run[1].deadline # 0
  /\ now >= run[1].deadline
  /\ Running(run[1])
  /\ ~run[1].timedOut
  /\ run' = [run EXCEPT ![1].timedOut = TRUE,
                        ![1].sentAtTimeout = Dispatched(run[1])]
  /\ UNCHANGED logVars
  /\ RunLeaves

\* a quarter of an hour passes while the process awaits
Elapse ==
  /\ now < StartNow + MaxTicks * OPERATION_TIMEOUT_MIN
  /\ now' = now + OPERATION_TIMEOUT_MIN
  /\ UNCHANGED <<recVars, logVars, cfgVars, run, svc, httpVars>>

InitTimed ==
  /\ now = StartNow
  /\ InitRounds
  /\ crawl_logs = {}
  /\ nextLogId = 1
  /\ nTargets \in {1, MaxColleges}
  /\ run = [r \in RunIds |-> IdleRun]
  /\ svc = SvcReady
  /\ InitHttp
  /\ call = NoCall

NextTimed == ExecuteCrawl \/ TimeoutFires \/ Elapse \/ RunActions

SpecTimed == InitTimed /\ [][NextTimed]_vars

(***************************************************************************)
(* Ingestion writing college_rounds while a crawl under the ceiling        *)
(* timeout fails, times out or completes.  No statement of the pipeline is *)
(* inside a transaction: each pool.query commits on its own.               *)
(***************************************************************************)
\* A row an administrator entered and confirmed before the process started.
ConfirmedRound ==
  NewRound(1, 1, "RD", "2025-2026", "2025-11-01", NULL, "ADMIN", TRUE, 0)

InitPartial ==
  /\ now = StartNow
  /\ college_rounds \in {{}, {ConfirmedRound}}
  /\ nextRoundId = Cardinality(college_rounds) + 1
  /\ ipc = [w \in Ingestors |-> "idle"]
  /\ cand = [w \in Ingestors |-> NoCand]
  /\ existing = [w \in Ingestors |-> NotFound]
  /\ last = NoLast
  /\ chain = NoChain
  /\ crawl_logs = {}
  /\ nextLogId = 1
  /\ nTargets = 1
  /\ run = [r \in RunIds |-> IdleRun]
  /\ svc = SvcReady
  /\ InitHttp
  /\ call = NoCall

NextPartial ==
  \/ \E w \in Ingestors : Select(w)
  \/ \E w \in Ingestors : WriteUpdate(w)
  \/ \E w \in Ingestors : WriteRefresh(w)
  \/ \E w \in Ingestors : WriteSkip(w)
  \/ \E w \in Ingestors : WriteInsert(w)
  \/ ExecuteCrawl
  \/ TimeoutFires
  \/ Elapse
  \/ RunActions

SpecPartial == InitPartial /\ [][NextPartial]_vars

(***************************************************************************)
(* The crawler service process: initialize() and the cron callback.        *)
(***************************************************************************)
\* WHERE run_finished_at IS NULL
\*   AND run_started_at < NOW() - INTERVAL '30 minutes'
IsStale(x, t) == x.run_finished_at = 0 /\ x.run_started_at < t - STALE_MINUTES

\* SET run_finished_at = NOW(), details = COALESCE(details, '{}') || {error}
StaleAsg(t) == [run_finished_at |-> t, details |-> "error"]

\* return count > 0; the catch block returns false
HasDeadlineData(count, queryOk) == queryOk /\ count > 0

\* if (totalDeadlines < 50) return true; the catch block returns false
ShouldImportPdf(count, queryOk) == queryOk /\ count < PDF_MIN_DEADLINES

\* if (!hasData) import; else if (needsPdfImport) import; else skip
NeedsImport(count, ok1, ok2) ==
  IF ~HasDeadlineData(count, ok1) THEN TRUE ELSE ShouldImportPdf(count, ok2)

DeadlineCounts == {0, 1, PDF_MIN_DEADLINES}

\* The lowest run slot not yet used by this process.
FreshRun(r) == run[r].pc = "idle" /\ \A p \in RunIds : p < r => run[p].pc # "idle"

SvcLeaves == UNCHANGED <<recVars, cfgVars, httpVars>>

\* the 2 s timer of initialize() fires: cleanupStaleCrawlLogs() issues its UPDATE
Boot ==
  /\ svc.pc = "boot"
  /\ svc' = [svc EXCEPT !.pc = "cleanup"]
  /\ UNCHANGED <<now, logVars, run>>
  /\ SvcLeaves

\* the UPDATE of cleanupStaleCrawlLogs returns
CleanupOk ==
  /\ svc.pc = "cleanup"
  /\ crawl_logs' = {IF IsStale(x, now) THEN Assign(x, StaleAsg(now)) ELSE x :
                      x \in crawl_logs}
  /\ svc' = [svc EXCEPT !.pc = "check", !.cleanup = "ok", !.cleanupAt = now]
  /\ UNCHANGED <<now, nextLogId, run>>
  /\ SvcLeaves

\* the UPDATE throws: the catch block logs 'Failed to cleanup stale crawl
\* logs' and cleanupStaleCrawlLogs returns normally
CleanupFail ==
  /\ svc.pc = "cleanup"
  /\ svc' = [svc EXCEPT !.pc = "check", !.cleanup = "failed", !.cleanupAt = now]
  /\ UNCHANGED <<now, logVars, run>>
  /\ SvcLeaves

\* hasDeadlineData / shouldImportPdf ask for an import:
\* executeDataImport('startup') starts importFromPdf
StartupImport ==
  /\ svc.pc = "check"
  /\ \E count \in DeadlineCounts, ok1 \in BOOLEAN, ok2 \in BOOLEAN :
       NeedsImport(count, ok1, ok2)
  /\ svc' = [svc EXCEPT !.pc = "pdf"]
  /\ UNCHANGED <<now, logVars, run>>
  /\ SvcLeaves

\* no import is needed: cron.schedule(schedule, ...) and 'Crawler service ready'
SkipImport ==
  /\ svc.pc = "check"
  /\ \E count \in DeadlineCounts, ok1 \in BOOLEAN, ok2 \in BOOLEAN :
       ~NeedsImport(count, ok1, ok2)
  /\ svc' = [svc EXCEPT !.pc = "ready"]
  /\ UNCHANGED <<now, logVars, run>>
  /\ SvcLeaves

\* importFromPdf resolves in time: runCrawlerForMissingColleges(pool, cycle)
PdfOk ==
  /\ svc.pc = "pdf"
  /\ \E r \in RunIds :
       /\ FreshRun(r)
       /\ StartMissing(r)
       /\ svc' = [svc EXCEPT !.pc = "missing", !.importRun = r]
  /\ UNCHANGED <<now, logVars>>
  /\ SvcLeaves

\* importFromPdf rejects or its timer wins: the catch block of
\* executeDataImport logs; initialize goes on to cron.schedule
PdfFail ==
  /\ svc.pc = "pdf"
  /\ svc' = [svc EXCEPT !.pc = "ready"]
  /\ UNCHANGED <<now, logVars, run>>
  /\ SvcLeaves

\* runCrawlerForMissingColleges has settled either way: executeDataImport
\* returns and initialize goes on to cron.schedule
ImportDone ==
  /\ svc.pc = "missing"
  /\ run[svc.importRun].pc = "done"
  /\ svc' = [svc EXCEPT !.pc = "ready"]
  /\ UNCHANGED <<now, logVars, run>>
  /\ SvcLeaves

\* the cron callback fires: executeCrawl('scheduled') calls runCrawler(pool)
CronTick ==
  /\ svc.pc = "ready"
  /\ \E r \in RunIds : FreshRun(r) /\ StartFull(r)
  /\ UNCHANGED <<now, logVars, svc>>
  /\ SvcLeaves

\* a minute passes
Tick ==
  /\ now < StartNow + MaxTicks
  /\ now' = now + 1
  /\ UNCHANGED <<recVars, logVars, cfgVars, run, svc, httpVars>>

\* Rows left in crawl_logs by earlier processes: one unfinished and older
\* than the limit, one unfinished and exactly at the limit, one finished.
PriorLogs ==
  {[NewLog(1, 0) EXCEPT !.colleges_attempted = 1, !.colleges_successful = 1],
   NewLog(2, StartNow - STALE_MINUTES),
   [NewLog(3, 0) EXCEPT !.run_finished_at = 5, !.details = "counts"]}

InitSvc ==
  /\ now = StartNow
  /\ InitRounds
  /\ crawl_logs \in SUBSET PriorLogs
  /\ nextLogId = Cardinality(PriorLogs) + 1
  /\ nTargets \in 0..MaxSvcColleges
  /\ run = [r \in RunIds |-> IdleRun]
  /\ svc = [pc |-> "boot", cleanup |-> "pending", cleanupAt |-> 0, importRun |-> 0]
  /\ InitHttp
  /\ call = NoCall

NextSvc ==
  \/ Boot
  \/ CleanupOk
  \/ CleanupFail
  \/ StartupImport
  \/ SkipImport
  \/ PdfOk
  \/ PdfFail
  \/ ImportDone
  \/ CronTick
  \/ Tick
  \/ RunActions

SpecSvc == InitSvc /\ [][NextSvc]_vars

(***************************************************************************)
(* The backend's trigger endpoint, POST /api/crawler/run.                  *)
(***************************************************************************)
RequestIds == 1..MaxRequests

Rejects_Never(flag) == FALSE

\* if (isRunning) return res.status(400)
Rejects(flag) == flag

OtherInFlight(q) == \E p \in RequestIds \ {q} : req[p].pc = "insert"

HttpLeaves == UNCHANGED <<now, recVars, cfgVars, run, svc>>

\* the handler runs up to its await: the guard, isRunning = true, startTime,
\* and the INSERT is sent
PostRun(q) ==
  /\ req[q].pc = "new"
  /\ IF Rejects(isRunning)
     THEN /\ req' = [req EXCEPT ![q].pc = "done", ![q].status = 400,
                                ![q].busy = OtherInFlight(q)]
          /\ UNCHANGED isRunning
     ELSE /\ req' = [req EXCEPT ![q].pc = "insert", ![q].startTime = now,
                                ![q].busy = OtherInFlight(q)]
          /\ isRunning' = TRUE
  /\ UNCHANGED logVars
  /\ HttpLeaves

\* the INSERT returns: isRunning = false; res.json(result.rows[0])
PostInsertOk(q) ==
  /\ req[q].pc = "insert"
  /\ crawl_logs' = crawl_logs \cup {NewLog(nextLogId, req[q].startTime)}
  /\ nextLogId' = nextLogId + 1
  /\ isRunning' = FALSE
  /\ req' = [req EXCEPT ![q].pc = "done", ![q].status = 200,
                         ![q].logId = nextLogId]
  /\ HttpLeaves

\* the INSERT throws: catch { isRunning = false; res.status(500) }
PostInsertFail(q) ==
  /\ req[q].pc = "insert"
  /\ isRunning' = FALSE
  /\ req' = [req EXCEPT ![q].pc = "done", ![q].status = 500]
  /\ UNCHANGED logVars
  /\ HttpLeaves

InitReq ==
  /\ now = StartNow
  /\ InitRounds
  /\ crawl_logs = {}
  /\ nextLogId = 1
  /\ nTargets = 0
  /\ run = [r \in RunIds |-> IdleRun]
  /\ svc = SvcReady
  /\ InitHttp
  /\ call = NoCall

NextReq ==
  \/ \E q \in RequestIds : PostRun(q)
  \/ \E q \in RequestIds : PostInsertOk(q)
  \/ \E q \in RequestIds : PostInsertFail(q)
  \/ Tick

SpecHttp == InitReq /\ [][NextReq]_vars

\* Every storage call eventually returns, with a result or an error.
StorageReturns ==
  \A q \in RequestIds : WF_vars(PostInsertOk(q) \/ PostInsertFail(q))

SpecHttpLive == SpecHttp /\ StorageReturns

(***************************************************************************)
(* The admission cycle: getCurrentCycle as written in crawler.ts, in the   *)
(* crawler's index.ts and in the frontend's types.ts.  A date is given by  *)
(* its calendar year and calendar month 1..12; Date.getMonth() is 0-based. *)
(* A cycle token `${a}-${b}` is the tuple <<a, "-", b>>.                    *)
(***************************************************************************)
FirstYear == 2025

Years == FirstYear..(FirstYear + MaxYears - 1)

Months == 1..12

\* now.getMonth()
GetMonth(month) == month - 1

\* `${a}-${b}`
CycleToken(a, b) == <<a, "-", b>>

\* parseInt(cycle.split('-')[0]) and Number of the second part
CycleStart(token) == token[1]

CycleEnd(token) == token[3]

NoToken == <<>>

\* crawler.ts
getCurrentCycle_crawler(year, month) ==
  IF GetMonth(month) >= 8 THEN CycleToken(year, year + 1)
                          ELSE CycleToken(year - 1, year)

\* index.ts of the crawler
getCurrentCycle_index(year, month) ==
  IF GetMonth(month) >= 8 THEN CycleToken(year, year + 1)
                          ELSE CycleToken(year - 1, year)

getCurrentCycle_frontend_OneBased(year, month) ==
  IF month >= 8 THEN CycleToken(year, year + 1)
                ELSE CycleToken(year - 1, year)

\* types.ts of the frontend
getCurrentCycle_frontend(year, month) ==
  IF GetMonth(month) >= 8 THEN CycleToken(year, year + 1)
                          ELSE CycleToken(year - 1, year)

Implementations == {"crawler", "index", "frontend"}

getCurrentCycle(impl, year, month) ==
  CASE impl = "crawler" -> getCurrentCycle_crawler(year, month)
    [] impl = "index" -> getCurrentCycle_index(year, month)
    [] impl = "frontend" -> getCurrentCycle_frontend(year, month)

CallLeaves ==
  UNCHANGED <<now, recVars, logVars, nTargets, run, svc, httpVars>>

\* one of the three implementations is called on the date
CallGetCurrentCycle(impl) ==
  /\ call.fn = "getCurrentCycle"
  /\ call.out[impl] = NoToken
  /\ call' = [call EXCEPT !.out[impl] = getCurrentCycle(impl, call.year, call.month)]
  /\ CallLeaves

InitOther ==
  /\ now = StartNow
  /\ InitRounds
  /\ crawl_logs = {}
  /\ nextLogId = 1
  /\ nTargets = 0
  /\ run = [r \in RunIds |-> IdleRun]
  /\ svc = SvcReady
  /\ InitHttp

InitCycle ==
  /\ InitOther
  /\ \E y \in Years, m \in Months :
       call = [fn |-> "getCurrentCycle", year |-> y, month |-> m,
               out |-> [impl \in Implementations |-> NoToken]]

NextCycle == \E impl \in Implementations : CallGetCurrentCycle(impl)

SpecCycle == InitCycle /\ [][NextCycle]_vars

(***************************************************************************)
(* The target list of runCrawlerForMissingColleges as executeDataImport    *)
(* calls it, beside the cycle runCrawler reconciles against.               *)
(***************************************************************************)
CycleColleges == 1..MaxCycleColleges

\* colleges.admissions_url: NULL, the empty string, or a URL
Urls == {NULL, "", "https://college.example/admissions"}

\* The cycles a stored row or the settings record can hold.
CycleTokens == {CycleToken(y, y + 1) : y \in Years}

\* runCrawler: settings.current_cycle when the row exists and is non-empty,
\* else getCurrentCycle()
ActiveCycle(settings, year, month) ==
  IF settings # NoToken THEN settings ELSE getCurrentCycle_crawler(year, month)

HasUrl(url) == url # NULL /\ url # ""

\* SELECT ... FROM colleges c WHERE c.admissions_url IS NOT NULL
\*   AND c.admissions_url != '' AND NOT EXISTS (SELECT 1 FROM college_rounds cr
\*   WHERE cr.college_id = c.id AND cr.cycle = $1)
MissingQuery(colleges, rounds, cycle) ==
  {c \in DOMAIN colleges :
     HasUrl(colleges[c])
       /\ ~\E x \in rounds : x.college_id = c /\ x.cycle = cycle}

\* executeDataImport: const currentCycle = getCurrentCycle(); ...
\* await runCrawlerForMissingColleges(pool, currentCycle), up to its query
LoadMissingTargets ==
  /\ call.fn = "missingTargets"
  /\ ~call.loaded
  /\ call' = [call EXCEPT
       !.loaded = TRUE,
       !.cycle = getCurrentCycle_index(call.year, call.month),
       !.targets = MissingQuery(call.colleges, call.rounds,
                                getCurrentCycle_index(call.year, call.month))]
  /\ CallLeaves

InitMissing ==
  /\ InitOther
  /\ \E y \in Years, m \in Months, st \in CycleTokens \cup {NoToken},
        cs \in [CycleColleges -> Urls],
        rs \in SUBSET [college_id : CycleColleges, cycle : CycleTokens] :
       call = [fn |-> "missingTargets", year |-> y, month |-> m,
               settings |-> st, colleges |-> cs, rounds |-> rs,
               loaded |-> FALSE, cycle |-> NoToken, targets |-> {}]

NextMissing == LoadMissingTargets

SpecMissing == InitMissing /\ [][NextMissing]_vars

(***************************************************************************)
(* importFromPdf: the loop over the parsed deadlines and its counters.     *)
(* All candidates of a matched name address one row of college_rounds,     *)
(* kept in call.row as "absent", "unconfirmed" or "confirmed".             *)
(***************************************************************************)
\* deadline.collegeName of the parsed candidates
RawNames == {"Alpha University", "Beta College"}

\* A name collegeMatches has no entry for: collegeMatches.get() is undefined.
NoMatch == 0

RECURSIVE SeqsUpTo(_, _)
SeqsUpTo(S, n) ==
  IF n = 0 THEN {<<>>}
  ELSE SeqsUpTo(S, n - 1) \cup {Append(q, x) : q \in SeqsUpTo(S, n - 1), x \in S}

MissCounter_Errors == "errors"

\* if (!collegeId) { skipped++; continue; }
MissCounter == "skipped"

\* The branch importFromPdf takes for one candidate, as the counter it
\* increments and whether a statement wrote college_rounds.  selectOk and
\* writeOk tell whether the SELECT and the UPDATE / INSERT return or throw.
ImportOne(collegeId, row, selectOk, writeOk) ==
  IF collegeId = NoMatch THEN [counter |-> MissCounter, wrote |-> FALSE, row |-> row]
  ELSE IF ~selectOk THEN [counter |-> "errors", wrote |-> FALSE, row |-> row]
  ELSE IF row = "confirmed" THEN [counter |-> "skipped", wrote |-> FALSE, row |-> row]
  ELSE IF ~writeOk THEN [counter |-> "errors", wrote |-> FALSE, row |-> row]
  ELSE [counter |-> "imported", wrote |-> TRUE, row |-> "unconfirmed"]

Bump(n, counter, which) == IF counter = which THEN n + 1 ELSE n

\* one turn of for (const deadline of deadlines)
ImportStep ==
  /\ call.fn = "importFromPdf"
  /\ call.k <= Len(call.deadlines)
  /\ \E selectOk \in BOOLEAN, writeOk \in BOOLEAN :
       LET res == ImportOne(call.matches[call.deadlines[call.k]], call.row,
                            selectOk, writeOk)
       IN  call' = [call EXCEPT
             !.k = @ + 1,
             !.row = res.row,
             !.imported = Bump(@, res.counter, "imported"),
             !.skipped = Bump(@, res.counter, "skipped"),
             !.errors = Bump(@, res.counter, "errors"),
             !.done = Append(@, [counter |-> res.counter, wrote |-> res.wrote])]
  /\ CallLeaves

\* return { imported, skipped, errors }, after the loop or, with no parsed
\* deadline, before it
ImportReturn ==
  /\ call.fn = "importFromPdf"
  /\ call.k > Len(call.deadlines)
  /\ ~call.returned
  /\ call' = [call EXCEPT !.returned = TRUE]
  /\ CallLeaves

InitPdf ==
  /\ InitOther
  /\ \E ds \in SeqsUpTo(RawNames, MaxCandidates),
        ms \in [RawNames -> {NoMatch, 1}],
        row \in {"absent", "unconfirmed", "confirmed"} :
       call = [fn |-> "importFromPdf", deadlines |-> ds, matches |-> ms,
               row |-> row, k |-> 1, imported |-> 0, skipped |-> 0,
               errors |-> 0, done |-> <<>>, returned |-> FALSE]

NextPdf == ImportStep \/ ImportReturn

SpecPdf == InitPdf /\ [][NextPdf]_vars

(***************************************************************************)
(* matchColleges: one turn of its loop over the parsed names.  Strings are *)
(* sequences of one-character strings, so that toLowerCase, trim, split    *)
(* and includes are computed character by character.                       *)
(***************************************************************************)
MaxNameWords == 3   \* words of a parsed college name

\* the words the names are built from
Lexicon ==
  [Ohio |-> <<"O", "h", "i", "o">>,
   State |-> <<"S", "t", "a", "t", "e">>,
   Tech |-> <<"T", "e", "c", "h">>,
   Art |-> <<"A", "r", "t">>,
   University |-> <<"U", "n", "i", "v", "e", "r", "s", "i", "t", "y">>,
   of |-> <<"o", "f">>,
   Technology |-> <<"T", "e", "c", "h", "n", "o", "l", "o", "g", "y">>,
   Institute |-> <<"I", "n", "s", "t", "i", "t", "u", "t", "e">>,
   OSU |-> <<"O", "S", "U">>]

Space == " "

RECURSIVE Join(_)
Join(words) ==
  IF Len(words) = 0 THEN <<>>
  ELSE IF Len(words) = 1 THEN words[1]
  ELSE words[1] \o <<Space>> \o Join(Tail(words))

\* String.prototype.toLowerCase over the letters of the lexicon
LowerCaseOf ==
  ("O" :> "o") @@ ("S" :> "s") @@ ("T" :> "t") @@ ("A" :> "a")
    @@ ("U" :> "u") @@ ("I" :> "i")

toLowerCase(s) ==
  [i \in DOMAIN s |-> IF s[i] \in DOMAIN LowerCaseOf THEN LowerCaseOf[s[i]]
                      ELSE s[i]]

\* String.prototype.trim
RECURSIVE trim(_)
trim(s) ==
  IF Len(s) = 0 THEN s
  ELSE IF s[1] = Space THEN trim(Tail(s))
  ELSE IF s[Len(s)] = Space THEN trim(SubSeq(s, 1, Len(s) - 1))
  ELSE s

\* String.prototype.includes
includes(s, part) ==
  \E i \in 1..(Len(s) - Len(part) + 1) : SubSeq(s, i, i + Len(part) - 1) = part

\* String.prototype.split(/\s+/): the pieces between the runs of spaces, an
\* empty piece before a leading and after a trailing run
RECURSIVE SplitFrom(_, _, _, _, _)
SplitFrom(s, i, cur, acc, afterSpace) ==
  IF i > Len(s) THEN Append(acc, cur)
  ELSE IF s[i] = Space
    THEN IF afterSpace THEN SplitFrom(s, i + 1, cur, acc, TRUE)
         ELSE SplitFrom(s, i + 1, <<>>, Append(acc, cur), TRUE)
  ELSE SplitFrom(s, i + 1, Append(cur, s[i]), acc, FALSE)

split(s) == SplitFrom(s, 1, <<>>, <<>>, FALSE)

\* ['university', 'college', 'the', 'and', 'of']
StopWords ==
  {toLowerCase(Lexicon.University), Lexicon.of,
   <<"c", "o", "l", "l", "e", "g", "e">>, <<"t", "h", "e">>, <<"a", "n", "d">>}

MIN_WORD_LENGTH == 3   \* w.length > 3

\* .filter(w => w.length > 3 && !stopWords.includes(w))
IsSignificant(w) == Len(w) > MIN_WORD_LENGTH /\ w \notin StopWords

parsedWordsOf(normalizedParsed) ==
  SelectSeq(split(normalizedParsed), IsSignificant)

\* dbWords.some(dw => dw.includes(w) || w.includes(dw))
Overlaps(w, dbWords) ==
  \E j \in DOMAIN dbWords : includes(dbWords[j], w) \/ includes(w, dbWords[j])

\* parsedWords.filter(...).length
matchCount(parsedWords, dbWords) ==
  Cardinality({i \in DOMAIN parsedWords : Overlaps(parsedWords[i], dbWords)})

WordRule_AnyOverlap(count, nWords) == count >= 1

\* return matchCount >= 2 || (parsedWords.length === 1 && matchCount === 1)
WordRule(count, nWords) == count >= 2 \/ (nWords = 1 /\ count = 1)

\* Array.prototype.find, given the indices of dbColleges the predicate holds
\* for: the first of them, or NoMatch (undefined)
Find(hits) ==
  IF hits = {} THEN NoMatch
  ELSE CHOOSE i \in hits : \A j \in hits : i <= j

ExactMatch(dbColleges, normalizedParsed) ==
  Find({i \in DOMAIN dbColleges :
    \/ toLowerCase(dbColleges[i].name) = normalizedParsed
    \/ (dbColleges[i].short_name # NULL
          /\ toLowerCase(dbColleges[i].short_name) = normalizedParsed)})

ContainsMatch(dbColleges, normalizedParsed) ==
  Find({i \in DOMAIN dbColleges :
    \/ includes(toLowerCase(dbColleges[i].name), normalizedParsed)
    \/ includes(normalizedParsed, toLowerCase(dbColleges[i].name))})

WordMatch(dbColleges, normalizedParsed) ==
  LET parsedWords == parsedWordsOf(normalizedParsed)
  IN  Find({i \in DOMAIN dbColleges :
        WordRule(matchCount(parsedWords, split(toLowerCase(dbColleges[i].name))),
                 Len(parsedWords))})

\* the body of for (const parsedName of uniqueNames): the stage that found
\* the match and the index of the matched college
MatchOf(dbColleges, parsedName) ==
  LET normalizedParsed == trim(toLowerCase(parsedName))
      exact == ExactMatch(dbColleges, normalizedParsed)
      contains == ContainsMatch(dbColleges, normalizedParsed)
      words == WordMatch(dbColleges, normalizedParsed)
  IN  IF exact # NoMatch THEN [stage |-> "exact", match |-> exact]
      ELSE IF contains # NoMatch THEN [stage |-> "contains", match |-> contains]
      ELSE IF words # NoMatch THEN [stage |-> "words", match |-> words]
      ELSE [stage |-> "unmatched", match |-> NoMatch]

\* matches.set(parsedName, match.id) or unmatched.push(parsedName)
MatchName ==
  /\ call.fn = "matchColleges"
  /\ call.stage = "pending"
  /\ LET res == MatchOf(call.dbColleges, call.parsedName)
     IN  call' = [call EXCEPT
           !.stage = res.stage,
           !.matched = IF res.match = NoMatch THEN NoMatch
                       ELSE call.dbColleges[res.match].id]
  /\ CallLeaves

\* the words of the parsed names and the rows of table colleges
ParsedLexicon ==
  {Lexicon.Ohio, Lexicon.State, Lexicon.Tech, Lexicon.Art,
   Lexicon.University, Lexicon.of}

DbRows ==
  {[name |-> Join(<<Lexicon.Ohio, Lexicon.State, Lexicon.University>>),
    short_name |-> Lexicon.OSU],
   [name |-> Join(<<Lexicon.Institute, Lexicon.of, Lexicon.Technology>>),
    short_name |-> NULL],
   [name |-> Join(<<Lexicon.Art, Lexicon.Institute>>), short_name |-> NULL],
   [name |-> Join(<<Lexicon.State, Lexicon.Tech>>), short_name |-> NULL]}

\* rows of SELECT id, name, short_name FROM colleges: name is UNIQUE
DbColleges ==
  {<<[id |-> 1, name |-> a.name, short_name |-> a.short_name]>> : a \in DbRows}
    \cup {<<[id |-> 1, name |-> p[1].name, short_name |-> p[1].short_name],
            [id |-> 2, name |-> p[2].name, short_name |-> p[2].short_name]>> :
            p \in {q \in DbRows \X DbRows : q[1] # q[2]}}

InitMatch ==
  /\ InitOther
  /\ \E ws \in SeqsUpTo(ParsedLexicon, MaxNameWords) \ {<<>>},
        pad \in {<<>>, <<Space>>}, db \in DbColleges :
       call = [fn |-> "matchColleges", parsedName |-> Join(ws) \o pad,
               dbColleges |-> db, stage |-> "pending", matched |-> NoMatch]

NextMatch == MatchName

SpecMatch == InitMatch /\ [][NextMatch]_vars

(***************************************************************************)
(* parseDate of the HTML path: a month name and a day, with or without a   *)
(* year, to the date part of toISOString().  A calendar date is a record   *)
(* [y, m, d] with m counted from 1; new Date(text) of such a text is       *)
(* midnight of that date in the local time of the process, toISOString()   *)
(* is the same instant in UTC.                                             *)
(***************************************************************************)
MaxDay == 32        \* largest day number of a date text

MonthNames ==
  <<"January", "February", "March", "April", "May", "June", "July", "August",
    "September", "October", "November", "December">>

\* new Date(`${name} 1`).getMonth(): 0 for January
MonthIndex(name) ==
  (CHOOSE i \in DOMAIN MonthNames : MonthNames[i] = name) - 1

IsLeap(y) == y % 4 = 0 /\ (y % 100 # 0 \/ y % 400 = 0)

DaysInMonth(y, m) ==
  IF m = 2 THEN (IF IsLeap(y) THEN 29 ELSE 28)
  ELSE IF m \in {4, 6, 9, 11} THEN 30 ELSE 31

InvalidDate == [y |-> 0, m |-> 0, d |-> 0]

\* new Date(`${name} ${day}, ${year}`): a day of 1..31 is accepted and a day
\* past the end of the month runs into the next month; any other day gives
\* an Invalid Date
NewDate(name, day, year) ==
  LET m == MonthIndex(name) + 1
  IN  IF day < 1 \/ day > 31 THEN InvalidDate
      ELSE IF day <= DaysInMonth(year, m) THEN [y |-> year, m |-> m, d |-> day]
      ELSE IF m = 12 THEN [y |-> year + 1, m |-> 1, d |-> day - 31]
      ELSE [y |-> year, m |-> m + 1, d |-> day - DaysInMonth(year, m)]

DayBefore(date) ==
  IF date.d > 1 THEN [date EXCEPT !.d = @ - 1]
  ELSE IF date.m > 1
    THEN [y |-> date.y, m |-> date.m - 1, d |-> DaysInMonth(date.y, date.m - 1)]
  ELSE [y |-> date.y - 1, m |-> 12, d |-> 31]

\* hours the local time of the process is ahead of UTC
UtcOffsets == {-5, 0, 1}

\* date.toISOString().split('T')[0] of local midnight of date
IsoDatePart(date, offset) == IF offset > 0 THEN DayBefore(date) ELSE date

NoYear == 0

\* the null parseDate returns
NoDate == [y |-> 0, m |-> 0, d |-> 0]

\* const year = month >= 8 ? cycleStartYear : cycleStartYear + 1
InferYear(month, cycleStartYear) ==
  IF month >= 8 THEN cycleStartYear ELSE cycleStartYear + 1

\* parseDate(dateStr, cycleStartYear) for dateStr = `${name} ${day}` or
\* `${name} ${day}, ${year}`; it returns null when no branch made a valid
\* date or toISOString threw
parseDate(name, day, year, cycleStartYear, offset) ==
  LET date == IF year # NoYear THEN NewDate(name, day, year)
              ELSE NewDate(name, day, InferYear(MonthIndex(name), cycleStartYear))
  IN  IF date = InvalidDate THEN NoDate ELSE IsoDatePart(date, offset)

CallParseDate ==
  /\ call.fn = "parseDate"
  /\ ~call.returned
  /\ call' = [call EXCEPT
       !.returned = TRUE,
       !.out = parseDate(call.name, call.day, call.year, call.cycleStartYear,
                         call.offset)]
  /\ CallLeaves

InitParseDate ==
  /\ InitOther
  /\ \E i \in DOMAIN MonthNames, day \in 0..MaxDay, year \in Years \cup {NoYear},
        csy \in Years, offset \in UtcOffsets :
       call = [fn |-> "parseDate", name |-> MonthNames[i], day |-> day,
               year |-> year, cycleStartYear |-> csy, offset |-> offset,
               returned |-> FALSE, out |-> NoDate]

NextParseDate == CallParseDate

SpecParseDate == InitParseDate /\ [][NextParseDate]_vars

(***************************************************************************)
(* parseWithRegex: the scan of the PDF text line by line.  A line is the   *)
(* sequence of its whitespace-separated tokens; a token is a word, given   *)
(* by its characters, or a date MM/DD/YYYY, given by its three numbers.    *)
(***************************************************************************)
MaxLines == 3       \* lines of the PDF text
MaxLineDates == 2   \* dates on one line of the classification inputs

Word(chars) == [text |-> chars, month |-> 0, day |-> 0, year |-> 0]

\* the text `${month}/${day}/${year}`
DateToken(month, day, year) ==
  [text |-> <<>>, month |-> month, day |-> day, year |-> year]

\* datePattern = /(\d{1,2})\/(\d{1,2})\/(\d{4})/ on a token
IsDateToken(t) == t.year # 0

Digits(n) == IF n < 10 THEN 1 ELSE 2

\* number of characters of a token
TokenLength(t) ==
  IF IsDateToken(t) THEN Digits(t.month) + Digits(t.day) + 6 ELSE Len(t.text)

RECURSIVE LineLength(_)
\* trimmed.length
LineLength(line) ==
  IF Len(line) = 0 THEN 0
  ELSE IF Len(line) = 1 THEN TokenLength(line[1])
  ELSE TokenLength(line[1]) + 1 + LineLength(Tail(line))

ScanWords ==
  [Alpha |-> Word(<<"A", "l", "p", "h", "a">>),
   University |-> Word(Lexicon.University),
   of |-> Word(Lexicon.of),
   Art |-> Word(Lexicon.Art),
   Coed |-> Word(<<"C", "o", "e", "d">>),
   Women |-> Word(<<"W", "o", "m", "e", "n">>),
   Men |-> Word(<<"M", "e", "n">>),
   Rolling |-> Word(<<"R", "o", "l", "l", "i", "n", "g">>),
   Page |-> Word(<<"P", "a", "g", "e">>),
   One |-> Word(<<"1">>),
   Website |-> Word(<<"W", "e", "b", "s", "i", "t", "e">>),
   Forms |-> Word(<<"F", "o", "r", "m", "s">>),
   Saves |-> Word(<<"S", "a", "v", "e", "s">>),
   Y |-> Word(<<"Y">>),
   N |-> Word(<<"N">>)]

DigitChars == {"0", "1", "2", "3", "4", "5", "6", "7", "8", "9"}

UpperChars ==
  {"A", "C", "F", "M", "N", "P", "R", "S", "U", "W", "Y"}

LetterChars ==
  UpperChars \cup {"a", "b", "c", "d", "e", "f", "g", "h", "i", "l", "m", "n",
                   "o", "p", "r", "s", "t", "u", "v", "y"}

IsNumber(t) ==
  ~IsDateToken(t) /\ Len(t.text) > 0 /\ \A k \in DOMAIN t.text : t.text[k] \in DigitChars

\* [YN]
IsYN(t) == t \in {ScanWords.Y, ScanWords.N}

\* (Coed|Women|Men) with the flag i
IsMarker(t) ==
  ~IsDateToken(t)
    /\ toLowerCase(t.text) \in {toLowerCase(ScanWords.Coed.text),
                                toLowerCase(ScanWords.Women.text),
                                toLowerCase(ScanWords.Men.text)}

\* the patterns of skipPatterns a line over ScanWords can match:
\* /^Page \d+$/, /^\s*$/, /^Website\s*$/, /^Website\s+\d/,
\* /^[YN]\s+[YN]\s*$/ and /^[YN]\s*$/
SkipPattern(line) ==
  \/ Len(line) = 0
  \/ (Len(line) = 2 /\ line[1] = ScanWords.Page /\ IsNumber(line[2]))
  \/ (Len(line) = 1 /\ line[1] = ScanWords.Website)
  \/ (Len(line) >= 2 /\ line[1] = ScanWords.Website
        /\ (IsDateToken(line[2]) \/ line[2].text[1] \in DigitChars))
  \/ (Len(line) = 2 /\ IsYN(line[1]) /\ IsYN(line[2]))
  \/ (Len(line) = 1 /\ IsYN(line[1]))

MIN_LINE_LENGTH == 4    \* if (trimmed.length < 4) return true

shouldSkipLine(line) == LineLength(line) < MIN_LINE_LENGTH \/ SkipPattern(line)

\* /\s+(Coed|Women|Men)\s+/i: a marker with a token before and after it
MarkerPositions(line) ==
  {k \in DOMAIN line : IsMarker(line[k]) /\ 1 < k /\ k < Len(line)}

collegeEntryPattern(line) == MarkerPositions(line) # {}

\* datePattern.test(trimmed)
HasDate(line) == \E k \in DOMAIN line : IsDateToken(line[k])

\* /^[YN](\s+[YN])*\s*$/
isYNMarker(line) == Len(line) > 0 /\ \A k \in DOMAIN line : IsYN(line[k])

\* /^[A-Z]/
StartsUpper(line) ==
  Len(line) > 0 /\ ~IsDateToken(line[1]) /\ line[1].text[1] \in UpperChars

MIN_FRAGMENT_LENGTH == 3    \* trimmed.length >= 3

\* the test of the last branch: the line is appended to pendingName
IsFragment(line) ==
  ~isYNMarker(line) /\ StartsUpper(line) /\ LineLength(line) >= MIN_FRAGMENT_LENGTH

\* (Saves Forms|Website|Forms|Saves)
IsTableNoise(t) == t \in {ScanWords.Website, ScanWords.Forms, ScanWords.Saves}

HasLetter(t) ==
  ~IsDateToken(t) /\ \E k \in DOMAIN t.text : t.text[k] \in LetterChars

Drop(s, n) == SubSeq(s, n + 1, Len(s))

\* .replace(/^(Saves Forms|Website|Forms|Saves)\s*/gi, '')
StripLeadingNoise(name) ==
  IF Len(name) >= 2 /\ name[1] = ScanWords.Saves /\ name[2] = ScanWords.Forms
  THEN Drop(name, 2)
  ELSE IF Len(name) >= 1 /\ IsTableNoise(name[1]) THEN Drop(name, 1)
  ELSE name

\* .replace(/^[YN]\s+[YN]\s+/g, '').replace(/^[YN]\s+/g, '')
StripLeadingYN(name) ==
  LET pair == IF Len(name) >= 3 /\ IsYN(name[1]) /\ IsYN(name[2])
              THEN Drop(name, 2) ELSE name
  IN  IF Len(pair) >= 2 /\ IsYN(pair[1]) THEN Drop(pair, 1) ELSE pair

\* .replace(/^[YN][YN]\s+/g, ''): a first token such as "YN"
StripLeadingYNPair(name) ==
  IF Len(name) >= 2 /\ ~IsDateToken(name[1]) /\ Len(name[1].text) = 2
       /\ \A k \in 1..2 : Word(<<name[1].text[k]>>) \in {ScanWords.Y, ScanWords.N}
  THEN Drop(name, 1) ELSE name

\* .replace(/\s+(Saves Forms|Website|Forms|Saves)\s+/gi, ' '): a match takes
\* the whitespace on both sides, so the token after a removed one stays
RECURSIVE StripInnerNoise(_, _)
StripInnerNoise(name, k) ==
  IF k >= Len(name) THEN name
  ELSE IF k > 1 /\ IsTableNoise(name[k])
    THEN StripInnerNoise(SubSeq(name, 1, k - 1) \o Drop(name, k), k + 1)
  ELSE StripInnerNoise(name, k + 1)

\* .replace(/\s+[YN]\s+[YN]\s+/gi, ' ')
RECURSIVE StripInnerYN(_, _)
StripInnerYN(name, k) ==
  IF k + 1 >= Len(name) THEN name
  ELSE IF k > 1 /\ IsYN(name[k]) /\ IsYN(name[k + 1])
    THEN StripInnerYN(SubSeq(name, 1, k - 1) \o Drop(name, k + 1), k + 1)
  ELSE StripInnerYN(name, k + 1)

\* .replace(/^[^A-Za-z]+/, '')
RECURSIVE StripLeadingNonLetters(_)
StripLeadingNonLetters(name) ==
  IF Len(name) > 0 /\ ~HasLetter(name[1]) THEN StripLeadingNonLetters(Tail(name))
  ELSE name

\* the clean-up of collegeName
CleanName(name) ==
  StripLeadingNonLetters(
    StripInnerYN(
      StripInnerNoise(
        StripLeadingYNPair(StripLeadingYN(StripLeadingNoise(name))), 1), 1))

MIN_NAME_LENGTH == 4    \* collegeName.length < 4

\* if (collegeName.length < 4 || /^[\$\d]/.test(collegeName)
\*     || /^(Y|N|S|F|A)\s*$/.test(collegeName)) continue
InvalidName(name) ==
  \/ LineLength(name) < MIN_NAME_LENGTH
  \/ (Len(name) > 0 /\ ~IsDateToken(name[1]) /\ name[1].text[1] \in DigitChars)

MIN_YEAR == 2024    \* year >= 2024
MAX_YEAR == 2027    \* year <= 2027

ValidYear(year) == year >= MIN_YEAR /\ year <= MAX_YEAR

IsAcceptedDate(t) == IsDateToken(t) /\ ValidYear(t.year)

\* allDates: the dates of restOfLine with a validated year, left to right
allDatesOf(rest) == SelectSeq(rest, IsAcceptedDate)

\* /Rolling/i.test(restOfLine)
hasRollingIn(rest) ==
  \E k \in DOMAIN rest :
    ~IsDateToken(rest[k])
      /\ includes(toLowerCase(rest[k].text), toLowerCase(ScanWords.Rolling.text))

RoundOf_NoPosition(month, day, first, hasRolling) ==
  IF month \in {10, 11} THEN "ED"
  ELSE IF month = 12 THEN "EA"
  ELSE IF month = 1 /\ day <= 15 THEN "ED2"
  ELSE IF month \in {1, 2} THEN "RD"
  ELSE IF month >= 3 /\ month <= 8 THEN (IF hasRolling THEN "ROLLING" ELSE "RD")
  ELSE "ROLLING"

\* the chain of tests on month and day; first is j === 0
RoundOf(month, day, first, hasRolling) ==
  IF month = 10 \/ (month = 11 /\ day <= 15) THEN (IF first THEN "ED" ELSE "EA")
  ELSE IF month = 11 /\ day > 15 THEN (IF first THEN "ED" ELSE "EA")
  ELSE IF month = 12 THEN (IF first THEN "EA" ELSE "ED2")
  ELSE IF month = 1 /\ day <= 15 THEN (IF first THEN "ED2" ELSE "RD")
  ELSE IF month = 1 \/ month = 2 THEN "RD"
  ELSE IF month >= 3 /\ month <= 8 THEN (IF hasRolling THEN "ROLLING" ELSE "RD")
  ELSE "ROLLING"

\* `${year}-${month.toString().padStart(2, '0')}-${day.toString().padStart(2, '0')}`
FormattedDate(year, month, day) == [y |-> year, m |-> month, d |-> day]

\* the candidates one entry line pushes to allDeadlines; line and j record
\* where a candidate comes from and are not fields of ParsedDeadline
EntryDeadlines(collegeName, rest, cycleYear, lineNo) ==
  LET allDates == allDatesOf(rest)
      hasRolling == hasRollingIn(rest)
  IN  IF Len(allDates) = 0 /\ hasRolling
      THEN <<[collegeName |-> collegeName, roundType |-> "ROLLING",
              deadlineDate |-> FormattedDate(cycleYear + 1, 8, 1),
              line |-> lineNo, j |-> 0]>>
      ELSE [j \in DOMAIN allDates |->
             [collegeName |-> collegeName,
              roundType |-> RoundOf(allDates[j].month, allDates[j].day, j = 1,
                                    hasRolling),
              deadlineDate |-> FormattedDate(allDates[j].year, allDates[j].month,
                                             allDates[j].day),
              line |-> lineNo, j |-> j]]

\* const line = lines[i], while the loop runs
CurrentLine == call.lines[call.i]

Scanning ==
  call.fn = "parseWithRegex" /\ ~call.returned /\ call.i <= Len(call.lines)

\* if (shouldSkipLine(trimmed)) { pendingName = ''; continue; }
SkipLine ==
  /\ Scanning
  /\ shouldSkipLine(CurrentLine)
  /\ call' = [call EXCEPT !.i = @ + 1, !.pendingName = <<>>]
  /\ CallLeaves

\* fullLine.match(/^(.+?)\s+(Coed|Women|Men)\s+(.+)$/i): the first marker
FirstMarker(fullLine) ==
  CHOOSE k \in MarkerPositions(fullLine) :
    \A n \in MarkerPositions(fullLine) : k <= n

\* if (collegeEntryPattern.test(trimmed)) { ... }
EntryLine ==
  /\ Scanning
  /\ ~shouldSkipLine(CurrentLine)
  /\ collegeEntryPattern(CurrentLine)
  /\ LET fullLine == call.pendingName \o CurrentLine
         k == FirstMarker(fullLine)
         collegeName == CleanName(SubSeq(fullLine, 1, k - 1))
         rest == Drop(fullLine, k)
     IN  call' = [call EXCEPT
           !.i = @ + 1,
           !.pendingName = <<>>,
           !.allDeadlines =
              IF InvalidName(collegeName) THEN @
              ELSE @ \o EntryDeadlines(collegeName, rest, call.cycleYear, call.i)]
  /\ CallLeaves

\* else if (datePattern.test(trimmed)) { pendingName = ''; }
BareDateLine ==
  /\ Scanning
  /\ ~shouldSkipLine(CurrentLine)
  /\ ~collegeEntryPattern(CurrentLine)
  /\ HasDate(CurrentLine)
  /\ call' = [call EXCEPT !.i = @ + 1, !.pendingName = <<>>]
  /\ CallLeaves

KeepPending(pendingName, line) == pendingName

\* pendingName = pendingName ? pendingName + ' ' + trimmed : trimmed
AppendPending(pendingName, line) == pendingName \o line

\* else { if (!isYNMarker && /^[A-Z]/.test(trimmed) && trimmed.length >= 3) ... }
OtherLine ==
  /\ Scanning
  /\ ~shouldSkipLine(CurrentLine)
  /\ ~collegeEntryPattern(CurrentLine)
  /\ ~HasDate(CurrentLine)
  /\ call' = [call EXCEPT
       !.i = @ + 1,
       !.pendingName = IF IsFragment(CurrentLine)
                       THEN AppendPending(@, CurrentLine) ELSE @]
  /\ CallLeaves

\* `${deadline.collegeName}|${deadline.roundType}`
DedupKey(deadline) == <<deadline.collegeName, "|", deadline.roundType>>

IsFirstOfKey_Always(deadlines, n) == TRUE

\* !uniqueDeadlines.has(key) when the loop reaches deadlines[n]
IsFirstOfKey(deadlines, n) ==
  \A k \in 1..(n - 1) : DedupKey(deadlines[k]) # DedupKey(deadlines[n])

\* Array.from(uniqueDeadlines.values()): a Map keeps insertion order
UniqueDeadlines(deadlines) ==
  LET kept == {n \in DOMAIN deadlines : IsFirstOfKey(deadlines, n)}
      Nth(m) == CHOOSE n \in kept : Cardinality({k \in kept : k < n}) = m - 1
  IN  [m \in 1..Cardinality(kept) |-> deadlines[Nth(m)]]

\* the deduplication after the loop and return result
ReturnDeadlines ==
  /\ call.fn = "parseWithRegex"
  /\ ~call.returned
  /\ call.i > Len(call.lines)
  /\ call' = [call EXCEPT !.returned = TRUE,
                          !.result = UniqueDeadlines(call.allDeadlines)]
  /\ CallLeaves

\* the dates of the classification inputs: every month on day 1, the days
\* around the 15th of November and January, and the years around the limits
ScanDates ==
  {DateToken(m, 1, FirstYear) : m \in 1..13}
    \cup {DateToken(m, d, FirstYear) : m \in {1, 11}, d \in {15, 16}}
    \cup {DateToken(12, 1, y) : y \in {MIN_YEAR - 1, MIN_YEAR, MAX_YEAR, MAX_YEAR + 1}}

\* one entry line each: a name, a marker, up to MaxLineDates dates, and
\* the word Rolling or not
ClassificationTexts ==
  {<< <<ScanWords.Alpha, ScanWords.University, ScanWords.Coed>> \o ds \o tail >> :
     ds \in SeqsUpTo(ScanDates, MaxLineDates) \ {<<>>},
     tail \in {<<>>, <<ScanWords.Rolling>>}}

\* the lines of the multi-line inputs
ScanLines ==
  {<<ScanWords.University, ScanWords.of>>,
   <<ScanWords.of, ScanWords.Alpha>>,
   <<ScanWords.Y, ScanWords.N, ScanWords.Y>>,
   <<ScanWords.University, ScanWords.Women>>,
   <<ScanWords.Page, ScanWords.One>>,
   <<DateToken(1, 15, FirstYear + 1)>>,
   <<ScanWords.Alpha, DateToken(1, 15, FirstYear + 1)>>,
   <<ScanWords.Alpha, ScanWords.Coed, DateToken(11, 1, FirstYear),
     DateToken(1, 1, FirstYear + 1)>>,
   <<ScanWords.Alpha, ScanWords.Women, DateToken(2, 1, FirstYear + 1),
     DateToken(2, 15, FirstYear + 1)>>,
   <<ScanWords.Alpha, ScanWords.Men, ScanWords.Rolling>>,
   <<ScanWords.Art, ScanWords.Coed, DateToken(11, 1, FirstYear)>>}

InitScan ==
  /\ InitOther
  /\ \E lines \in ClassificationTexts \cup (SeqsUpTo(ScanLines, MaxLines) \ {<<>>}) :
       call = [fn |-> "parseWithRegex", lines |-> lines,
               cycleYear |-> FirstYear, i |-> 1, pendingName |-> <<>>,
               allDeadlines |-> <<>>, result |-> <<>>, returned |-> FALSE]

NextScan ==
  \/ SkipLine
  \/ EntryLine
  \/ BareDateLine
  \/ OtherLine
  \/ ReturnDeadlines

SpecScan == InitScan /\ [][NextScan]_vars

(***************************************************************************)
(* The workers of one run: the target list, the batches of Promise.all and *)
(* the keys of college_rounds each processCollege reads and writes.        *)
(***************************************************************************)
\* Object.entries(deadlines) of one parsed page, with a deadline_date each
ParsedRounds == {<<>>, <<"ED">>, <<"ED", "RD">>}

\* the orders in which a query can return the rows with the given ids
RowsOf_Joined(ids) ==
  {q \o q : q \in {p \in SeqsUpTo(ids, Cardinality(ids)) :
                     {p[k] : k \in DOMAIN p} = ids}}

RowsOf(ids) ==
  {q \in SeqsUpTo(ids, Cardinality(ids)) : {q[k] : k \in DOMAIN q} = ids}

\* SELECT id, name, admissions_url FROM colleges
\*   WHERE admissions_url IS NOT NULL AND admissions_url != ''
FullQuery(colleges) == {c \in DOMAIN colleges : HasUrl(colleges[c])}

TargetIds(mode, colleges, rounds, cycle) ==
  IF mode = "full" THEN FullQuery(colleges)
  ELSE MissingQuery(colleges, rounds, cycle)

\* colleges.slice(i, i + CONCURRENCY)
Slice(targets, i) ==
  SubSeq(targets, i + 1,
         IF i + CONCURRENCY < Len(targets) THEN i + CONCURRENCY ELSE Len(targets))

NoKey == <<>>

\* [college.id, roundType, currentCycle]
RoundKey(id, roundType, cycle) == <<id, roundType, cycle>>

\* a processCollege call: its college, where it stands, the rounds it still
\* has to reconcile, the key its current statement addresses, and the keys
\* it has read or written so far
NewWorker(id) ==
  [college |-> id, pc |-> "parse", todo |-> <<>>, key |-> NoKey, touched |-> {}]

\* const collegesResult = await pool.query(...); const colleges = ...rows
LoadTargets ==
  /\ call.fn = "crawl"
  /\ ~call.loaded
  /\ \E rows \in RowsOf(TargetIds(call.mode, call.colleges, call.rounds, call.cycle)) :
       call' = [call EXCEPT !.loaded = TRUE, !.targets = rows]
  /\ CallLeaves

\* Promise.all(batch.map((college, idx) => processCollege(...)))
StartBatch ==
  /\ call.fn = "crawl"
  /\ call.loaded
  /\ call.workers = <<>>
  /\ call.i < Len(call.targets)
  /\ call' = [call EXCEPT
       !.workers = [k \in DOMAIN Slice(call.targets, call.i) |->
                      NewWorker(Slice(call.targets, call.i)[k])]]
  /\ CallLeaves

\* const deadlines = await parseAdmissionsPage(...)
WorkerParse(k) ==
  /\ call.fn = "crawl"
  /\ k \in DOMAIN call.workers
  /\ call.workers[k].pc = "parse"
  /\ \E rounds \in ParsedRounds :
       call' = [call EXCEPT
         !.workers[k].todo = rounds,
         !.workers[k].pc = IF rounds = <<>> THEN "done" ELSE "select"]
  /\ CallLeaves

\* const existingResult = await pool.query(SELECT ... WHERE college_id = $1
\*   AND round_type = $2 AND cycle = $3)
WorkerSelect(k) ==
  /\ call.fn = "crawl"
  /\ k \in DOMAIN call.workers
  /\ call.workers[k].pc = "select"
  /\ LET key == RoundKey(call.workers[k].college, Head(call.workers[k].todo),
                         call.cycle)
     IN  call' = [call EXCEPT
           !.workers[k].key = key,
           !.workers[k].touched = @ \cup {key},
           !.workers[k].pc = "write"]
  /\ CallLeaves

\* the UPDATE or INSERT of the round, or neither; then the next round
WorkerWrite(k) ==
  /\ call.fn = "crawl"
  /\ k \in DOMAIN call.workers
  /\ call.workers[k].pc = "write"
  /\ call' = [call EXCEPT
       !.workers[k].key = NoKey,
       !.workers[k].todo = Tail(@),
       !.workers[k].pc = IF Len(call.workers[k].todo) = 1 THEN "done"
                         ELSE "select"]
  /\ CallLeaves

\* Promise.all has settled: the next turn of the batch loop
BatchSettled ==
  /\ call.fn = "crawl"
  /\ call.workers # <<>>
  /\ \A k \in DOMAIN call.workers : call.workers[k].pc = "done"
  /\ call' = [call EXCEPT !.workers = <<>>, !.i = @ + CONCURRENCY]
  /\ CallLeaves

InitWorkers ==
  /\ InitOther
  /\ \E mode \in {"full", "missing"}, cs \in [CycleColleges -> Urls],
        had \in SUBSET CycleColleges :
       call = [fn |-> "crawl", mode |-> mode, colleges |-> cs,
               cycle |-> CycleToken(FirstYear, FirstYear + 1),
               rounds |-> {[college_id |-> c,
                            cycle |-> CycleToken(FirstYear, FirstYear + 1)] :
                             c \in had},
               loaded |-> FALSE, targets |-> <<>>, i |-> 0, workers |-> <<>>]

NextWorkers ==
  \/ LoadTargets
  \/ StartBatch
  \/ \E k \in CycleColleges : WorkerParse(k) \/ WorkerSelect(k) \/ WorkerWrite(k)
  \/ BatchSettled

SpecWorkers == InitWorkers /\ [][NextWorkers]_vars

(***************************************************************************)
(* Properties of reconciliation (SpecRec).                                 *)
(***************************************************************************)
\* The row the last ingestion statement addressed, as it is stored now.
After == RowOr(SelectById(college_rounds, last.before.id))

\* The last step ended a reconciliation of a stored row, and that row was
\* stored at the write as the SELECT had returned it (no write in between).
ActedOnStored ==
  /\ last.w # "none"
  /\ last.ex.found
  /\ last.before.id = last.ex.id
  /\ last.before.deadline_date = last.ex.deadline_date
  /\ last.before.admin_confirmed = last.ex.admin_confirmed

\* C1: a reconciliation (HTML or PDF path) of a key whose stored row is
\* admin_confirmed, with a candidate date other than the stored one and no
\* write in between, leaves deadline_date and decision_date as they were.
C1_AdminLock ==
  (ActedOnStored /\ last.before.admin_confirmed
     /\ last.c.deadline_date # last.before.deadline_date)
  => /\ After.deadline_date = last.before.deadline_date
     /\ After.decision_date = last.before.decision_date

C1_Witness ==
  /\ ActedOnStored
  /\ last.w \in PdfWorkers
  /\ last.before.admin_confirmed
  /\ last.c.deadline_date # last.before.deadline_date
  /\ last.before.decision_date # NULL
  /\ last.kind = "skip"

\* C2: in every interleaving with the administrator's routes, an ingestion
\* write never changes the deadline_date of a row that is admin_confirmed at
\* the moment of the write.
C2_NoOverwriteOfConfirmed ==
  (last.w # "none" /\ last.before.id # 0 /\ last.before.admin_confirmed)
  => After.deadline_date = last.before.deadline_date

\* C3: the store never holds two rows with the same (college, round type,
\* cycle), whatever the interleaving of reconciliations and admin upserts.
C3_OneRowPerKey ==
  \A c \in CollegeIds, r \in RoundTypes, y \in Cycles :
    Cardinality(SelectByKey(college_rounds, c, r, y)) <= 1

\* An ingestion INSERT whose SELECT had found the key absent lost the race
\* for the key and was rejected; one row is stored.
C3_Witness ==
  /\ last.kind = "error"
  /\ ~last.ex.found
  /\ Cardinality(SelectByKey(college_rounds, last.c.college_id,
                             last.c.round_type, last.c.cycle)) = 1

\* C4: after the same candidate was reconciled twice in sequence from the
\* empty store there is exactly one row for its key, and the second
\* reconciliation assigned neither deadline_date nor source.
C4_SecondCallNoOp ==
  chain.n = 2
  => /\ Cardinality(SelectByKey(college_rounds, chain.c.college_id,
                                chain.c.round_type, chain.c.cycle)) = 1
     /\ chain.cols \cap {"deadline_date", "source"} = {}

\* C5: for a stored row with admin_confirmed = false, ingestion assigns
\* deadline_date and source only if the candidate date differs from the
\* stored one; with equal dates both columns keep their values (a row with
\* source ADMIN keeps it), on the HTML path and on the PDF path.
C5_WriteOnlyOnChange ==
  (ActedOnStored /\ ~last.before.admin_confirmed
     /\ last.c.deadline_date = last.before.deadline_date)
  => /\ After.deadline_date = last.before.deadline_date
     /\ After.source = last.before.source

(***************************************************************************)
(* Properties of the crawler service (SpecSvc), the trigger endpoint       *)
(* (SpecHttp) and the orchestrator (SpecRun).                              *)
(***************************************************************************)
\* The runCrawler invocations of this process that have created their
\* crawl_logs row and have not settled yet.
RunningCrawls ==
  {r \in RunIds : run[r].mode = "full" /\ Running(run[r]) /\ run[r].logId # 0}

\* C6: single-run exclusivity in the crawler service: an invocation of
\* executeCrawl / runCrawler while an earlier run is still RUNNING creates no
\* second CrawlRun row, so at most one run is RUNNING at any time.
C6_SingleRun == Cardinality(RunningCrawls) <= 1

\* A request is in flight from the start of its handler to its response.
NoPostInFlight == \A q \in RequestIds : req[q].pc # "insert"

\* C7: a POST /api/crawler/run that arrives while an earlier one has not yet
\* responded is answered 400 and inserts no crawl_logs row; rows are inserted
\* by the requests answered 200 only; and isRunning is false whenever no
\* POST /run is in flight, whether the earlier request succeeded or failed.
C7_TriggerGuard ==
  /\ \A q \in RequestIds :
       req[q].busy => (req[q].status = 400 /\ req[q].logId = 0)
  /\ {x.id : x \in crawl_logs} = {req[q].logId : q \in {p \in RequestIds : req[p].status = 200}}
  /\ NoPostInFlight => ~isRunning

C7_Witness ==
  /\ NoPostInFlight
  /\ \E q \in RequestIds : req[q].busy /\ req[q].status = 400
  /\ \E q \in RequestIds : req[q].status = 200
  /\ \E q \in RequestIds : req[q].status = 500

\* The rows that, when the process started, had no end time and had started
\* more than 30 minutes before.
StaleAtStartup ==
  {x.id : x \in {y \in PriorLogs :
                   y.run_finished_at = 0 /\ StartNow - y.run_started_at > 30}}

\* The process has started a run of its own: the startup import or a crawl.
NewRunStarted ==
  \/ svc.pc \in {"pdf", "missing"}
  \/ \E r \in RunIds : run[r].pc # "idle"

\* C8: every CrawlRun that at service startup has no end time and started
\* more than 30 minutes ago is finalized (end time set, error annotation in
\* details) before the first new run of the process is started.
C8_StaleFinalizedFirst ==
  NewRunStarted =>
    \A x \in crawl_logs :
      x.id \in StaleAtStartup => (x.run_finished_at # 0 /\ x.details = "error")

\* C9: every state of a crawl_logs row that runCrawler persists (after each
\* batch and at finalization) has colleges_successful + colleges_failed equal
\* to colleges_attempted, and once runCrawler has returned normally the row's
\* colleges_attempted is the number N of target colleges.
C9_BatchAccounting ==
  /\ \A x \in crawl_logs :
       x.colleges_successful + x.colleges_failed = x.colleges_attempted
  /\ \A r \in RunIds :
       (run[r].mode = "full" /\ run[r].outcome = "resolved")
         => LogById(run[r].logId).colleges_attempted = nTargets

C9_Witness ==
  /\ run[1].mode = "full"
  /\ run[1].outcome = "resolved"
  /\ nTargets > CONCURRENCY
  /\ LogById(run[1].logId).run_finished_at # 0
  /\ LogById(run[1].logId).colleges_attempted = nTargets
  /\ LogById(run[1].logId).colleges_failed > 1
  /\ LogById(run[1].logId).colleges_successful > 1

\* The batch (0-based) a college at position k of the target list belongs to.
BatchOf(k) == (k - 1) \div CONCURRENCY

\* C10: while a college of a later batch is in flight, every college of the
\* earlier batches has resolved and been counted, the counters of the earlier
\* batches have been written (the locals, and for runCrawler the crawl_logs
\* row), and no more than CONCURRENCY colleges of the run are in flight.
C10_BatchBarrier ==
  \A r \in RunIds :
    /\ Cardinality(InFlight(run[r])) <= CONCURRENCY
    /\ \A k \in InFlight(run[r]) :
         /\ \A j \in 1..(BatchOf(k) * CONCURRENCY) : run[r].st[j] = "done"
         /\ run[r].completed = BatchOf(k) * CONCURRENCY
         /\ run[r].successful + run[r].failed = run[r].completed
         /\ run[r].mode = "full" =>
              LogById(run[r].logId).colleges_attempted = BatchOf(k) * CONCURRENCY

C10_Witness ==
  /\ run[1].mode = "full"
  /\ \E k \in InFlight(run[1]) : BatchOf(k) = 1
  /\ LogById(run[1].logId).colleges_attempted = CONCURRENCY
  /\ LogById(run[1].logId).colleges_failed > 0

\* The colleges of the batch in progress whose processCollege returned
\* { success: false } and that are not aggregated yet.
FailedPending(rn) ==
  IF rn.pc = "batch"
  THEN Cardinality({k \in Batch(rn.i, rn.n) : rn.st[k] = "failed"})
  ELSE 0

\* C11: a failure while processing one college (fetch error, timeout, too many
\* redirects, storage error of its reconciliation) is caught and counted as
\* exactly one failed item, and aborts neither its batch nor the run: the
\* other colleges of the batch stay dispatched, and a run that returns
\* normally has processed every college of every batch.
C11_FailureIsolation ==
  \A r \in RunIds :
    /\ run[r].failed + FailedPending(run[r]) = run[r].caught
    /\ run[r].pc = "batch" =>
         \A k \in Batch(run[r].i, run[r].n) :
           run[r].st[k] \in {"inflight", "ok", "failed"}
    /\ (run[r].outcome = "resolved" /\ run[r].n > 0) =>
         /\ run[r].completed = run[r].n
         /\ run[r].successful = run[r].n - run[r].caught
         /\ \A k \in 1..run[r].n : run[r].st[k] = "done"

C11_Witness ==
  /\ run[1].outcome = "resolved"
  /\ run[1].n > CONCURRENCY
  /\ run[1].caught = 2
  /\ run[1].failed = 2
  /\ run[1].completed = run[1].n

\* C12: once runCrawler has created its crawl_logs row, the call ends in one
\* of two ways: it resolves and the row has its end time, the final counts and
\* no error annotation; or it re-throws and the row has its end time, the
\* counts accumulated so far and an error annotation.
C12_RunOutcome ==
  \A r \in RunIds :
    (run[r].mode = "full" /\ run[r].pc = "done" /\ run[r].logId # 0) =>
      /\ LogById(run[r].logId).run_finished_at # 0
      /\ LogById(run[r].logId).colleges_attempted = run[r].completed
      /\ LogById(run[r].logId).colleges_successful = run[r].successful
      /\ LogById(run[r].logId).colleges_failed = run[r].failed
      /\ run[r].outcome = "resolved" => LogById(run[r].logId).details = "counts"
      /\ run[r].outcome = "rejected" => LogById(run[r].logId).details = "error"

\* C13: when the ceiling timeout of a full crawl has fired while the run was
\* in progress, the run's crawl_logs row is finalized as failed: once the run
\* has ended and the row has its end time, details carry an error annotation.
C13_TimeoutFinalizedFailed ==
  (run[1].timedOut /\ run[1].pc = "done" /\ run[1].logId # 0
     /\ LogById(run[1].logId).run_finished_at # 0)
    => LogById(run[1].logId).details = "error"

\* C14: after the ceiling timeout of an orchestrated operation has fired the
\* operation starts no further batch: no college that was not dispatched when
\* the timer fired is dispatched afterwards.
C14_NoBatchAfterTimeout ==
  run[1].timedOut => Dispatched(run[1]) = run[1].sentAtTimeout

\* C15: every ingestion entry point creates a crawl_logs row with a null end
\* time when it starts, so whenever a run is processing a batch of colleges
\* there is an unfinished crawl_logs row that belongs to it.
C15_RunHasCrawlRun ==
  \A r \in RunIds :
    run[r].pc = "batch" =>
      \E x \in crawl_logs : x.id = run[r].logId /\ x.run_finished_at = 0

\* C16: every crawl_logs row that is created eventually has its end time set,
\* given that every storage call eventually returns.
C16_EveryRunFinalized ==
  \A id \in 1..MaxRequests :
    [](  (\E x \in crawl_logs : x.id = id)
      => <>(\E x \in crawl_logs : x.id = id /\ x.run_finished_at # 0))

\* C17: in missing-only mode the target list is exactly the set of colleges
\* with a non-empty admissions URL that have no row of college_rounds for the
\* active cycle, the active cycle being the one held in the settings record
\* (the cycle the full crawl reconciles against).
C17_MissingTargets ==
  (call.fn = "missingTargets" /\ call.loaded) =>
    call.targets =
      {c \in CycleColleges :
         /\ call.colleges[c] \notin {NULL, ""}
         /\ \A x \in call.rounds :
              x.college_id = c =>
                x.cycle # ActiveCycle(call.settings, call.year, call.month)}

\* C20: for every calendar date getCurrentCycle returns "<year>-<year+1>" in
\* September-December and "<year-1>-<year>" in January-August, so the end year
\* is the start year + 1, and the three implementations return the same token
\* for the same date.
C20_CycleInference ==
  call.fn = "getCurrentCycle" =>
    \A impl \in Implementations :
      call.out[impl] # NoToken =>
        /\ call.month \in 9..12 => call.out[impl] = <<call.year, "-", call.year + 1>>
        /\ call.month \in 1..8 => call.out[impl] = <<call.year - 1, "-", call.year>>
        /\ CycleEnd(call.out[impl]) = CycleStart(call.out[impl]) + 1
        /\ \A other \in Implementations :
             call.out[other] # NoToken => call.out[other] = call.out[impl]

C20_Witness ==
  /\ call.fn = "getCurrentCycle"
  /\ call.month = 9
  /\ \A impl \in Implementations : call.out[impl] = <<call.year, "-", call.year + 1>>

\* C18: no rollback: whatever step the pipeline takes, a failure or a timeout
\* of the run included, every stored row of college_rounds stays stored, and
\* a row changes only by being given the values of the candidate the step
\* reconciles; ingestion never deletes a row and never puts back an earlier
\* value.
C18_NoRollback ==
  [][\A x \in college_rounds :
       \E y \in college_rounds' :
         /\ y.id = x.id
         /\ y.college_id = x.college_id
         /\ y.round_type = x.round_type
         /\ y.cycle = x.cycle
         /\ y.decision_date = x.decision_date
         /\ \/ y = x
            \/ /\ last'.w \in Ingestors
               /\ last'.before = x
               /\ y.deadline_date \in {x.deadline_date, last'.c.deadline_date}
               /\ y.last_crawled_at = now]_vars

C18_Witness ==
  /\ run[1].timedOut
  /\ run[1].outcome = "rejected"
  /\ \E x \in college_rounds :
       /\ x.source = "CRAWLER"
       /\ x.last_crawled_at = StartNow
       /\ now > StartNow

\* C19: in PDF import a candidate whose name has no matched college causes no
\* write of college_rounds and is counted as skipped, never as an error; the
\* candidates after it are still processed; and when the import returns,
\* imported + skipped + errors is the number of parsed candidates.
C19_MatchMiss ==
  call.fn = "importFromPdf" =>
    /\ \A j \in 1..Len(call.done) :
         call.matches[call.deadlines[j]] = 0 =>
           (call.done[j].counter = "skipped" /\ ~call.done[j].wrote)
    /\ call.imported + call.skipped + call.errors = Len(call.done)
    /\ call.returned =>
         /\ Len(call.done) = Len(call.deadlines)
         /\ call.imported + call.skipped + call.errors = Len(call.deadlines)

C19_Witness ==
  /\ call.fn = "importFromPdf"
  /\ call.returned
  /\ Len(call.deadlines) = 3
  /\ call.matches[call.deadlines[1]] = 0
  /\ call.done[1].counter = "skipped"
  /\ call.done[2].counter = "imported"
  /\ call.done[3].counter = "errors"

(***************************************************************************)
(* Properties of matchColleges (SpecMatch).                                *)
(***************************************************************************)
\* the significant tokens of the parsed name that overlap a token of the
\* college's name, counted by position
OverlapCount(c, parsedName) ==
  LET tokens == split(trim(toLowerCase(parsedName)))
      dbTokens == split(toLowerCase(c.name))
  IN  Cardinality({i \in DOMAIN tokens :
        /\ IsSignificant(tokens[i])
        /\ \E j \in DOMAIN dbTokens :
             includes(dbTokens[j], tokens[i]) \/ includes(tokens[i], dbTokens[j])})

SignificantCount(parsedName) ==
  LET tokens == split(trim(toLowerCase(parsedName)))
  IN  Cardinality({i \in DOMAIN tokens : IsSignificant(tokens[i])})

Qualifies(c, parsedName) ==
  \/ OverlapCount(c, parsedName) >= 2
  \/ (SignificantCount(parsedName) = 1 /\ OverlapCount(c, parsedName) = 1)

CollegeWithId(id) ==
  CHOOSE i \in DOMAIN call.dbColleges : call.dbColleges[i].id = id

Effect(kind) ==
  CASE kind = "insert" -> "inserted"
    [] kind = "update" -> "updated"
    [] kind \in {"skip", "refresh"} -> "skipped"

\* The row of key (c, r, y) after worker w has reconciled a candidate with
\* deadline date against rows, SELECT and write with nothing in between.
Reconciled(w, rows, c, r, y, date) ==
  LET ex == SelectResult(rows, c, r, y)
      row == RowOr(SelectByKey(rows, c, r, y))
      kind == Decision(w, ex, date)
  IN  CASE kind = "insert" ->
             NewRound(nextRoundId, c, r, y, date, NULL, "CRAWLER", FALSE, now)
        [] kind = "update" -> Assign(row, UpdateAsg(w, date, now))
        [] kind = "refresh" -> Assign(row, RefreshAsg(now))
        [] kind = "skip" -> row

Outcome(w, rows, c, r, y, date) ==
  LET after == Reconciled(w, rows, c, r, y, date)
  IN  [effect |-> Effect(Decision(w, SelectResult(rows, c, r, y), date)),
       deadline_date |-> after.deadline_date,
       source |-> after.source,
       admin_confirmed |-> after.admin_confirmed]

\* C22: on every stored state and for every candidate, the HTML path and the
\* PDF path have the same effect (inserted, updated or skipped) and leave the
\* same deadline_date, source and admin_confirmed.
C22_SameReconciliation ==
  \A c \in CollegeIds, r \in RoundTypes, y \in Cycles, date \in Dates :
    \A h \in HtmlWorkers, p \in PdfWorkers :
      Outcome(h, college_rounds, c, r, y, date)
        = Outcome(p, college_rounds, c, r, y, date)

(***************************************************************************)
(* Properties of parseDate (SpecParseDate).                                *)
(***************************************************************************)
DateLeq(a, b) ==
  \/ a.y < b.y
  \/ (a.y = b.y /\ a.m < b.m)
  \/ (a.y = b.y /\ a.m = b.m /\ a.d <= b.d)

\* C23: a month name and day without a year is returned with year
\* cycleStartYear for September to December and cycleStartYear + 1 for
\* January to August, and so between September 1 of cycleStartYear and
\* August 31 of cycleStartYear + 1.
C23_YearInference ==
  (call.fn = "parseDate" /\ call.returned /\ call.year = NoYear
     /\ call.out # NoDate)
    => /\ call.out.y = (IF MonthIndex(call.name) + 1 \in 9..12
                        THEN call.cycleStartYear ELSE call.cycleStartYear + 1)
       /\ DateLeq([y |-> call.cycleStartYear, m |-> 9, d |-> 1], call.out)
       /\ DateLeq(call.out, [y |-> call.cycleStartYear + 1, m |-> 8, d |-> 31])

(***************************************************************************)
(* Properties of parseWithRegex (SpecScan).                                *)
(***************************************************************************)
\* the candidates pushed for the dates of a line, not the placeholder
DatedDeadlines ==
  {n \in DOMAIN call.allDeadlines : call.allDeadlines[n].j > 0}

\* "Rolling" on the line a candidate comes from
LineHasRolling(deadline) == hasRollingIn(call.lines[deadline.line])

\* the table as stated, which has no row for November 16-30
StatedRound(month, day, first, rolling) ==
  IF month = 10 \/ (month = 11 /\ day <= 15) THEN (IF first THEN "ED" ELSE "EA")
  ELSE IF month = 11 THEN "no row"
  ELSE IF month = 12 THEN (IF first THEN "EA" ELSE "ED2")
  ELSE IF month = 1 /\ day <= 15 THEN (IF first THEN "ED2" ELSE "RD")
  ELSE IF month \in {1, 2} THEN "RD"
  ELSE IF month \in 3..8 THEN (IF rolling THEN "ROLLING" ELSE "RD")
  ELSE "ROLLING"

\* the table with the row for October extended to all of November
TableRound(month, day, first, rolling) ==
  IF month \in {10, 11} THEN (IF first THEN "ED" ELSE "EA")
  ELSE StatedRound(month, day, first, rolling)

ClearsPending(line) ==
  shouldSkipLine(line) \/ (~collegeEntryPattern(line) /\ HasDate(line))

IsTerminator(line) == ~shouldSkipLine(line) /\ collegeEntryPattern(line)

\* a name fragment: no noise, no marker, no date, starts with an uppercase
\* letter, at least 3 characters, not a run of Y and N
IsNameFragment(line) ==
  /\ ~ClearsPending(line)
  /\ ~IsTerminator(line)
  /\ StartsUpper(line)
  /\ LineLength(line) >= 3
  /\ ~(\A k \in DOMAIN line : IsYN(line[k]))

\* the pending name has Coed, Women or Men after its first token, which the
\* name pattern then takes for the marker of the entry line
ContainsMarker(pendingName) ==
  \E k \in DOMAIN pendingName : k > 1 /\ IsMarker(pendingName[k])

\* the candidates the step pushed
Pushed ==
  {n \in DOMAIN call'.allDeadlines : n > Len(call.allDeadlines)}

\* the college name of an entry line on its own
OwnName(line) == SubSeq(line, 1, FirstMarker(line) - 1)

\* the last line before line n that cleared the pending name or used it up
LastReset(n) ==
  LET resets == {k \in 1..(n - 1) :
                   ClearsPending(call.lines[k]) \/ IsTerminator(call.lines[k])}
  IN  IF resets = {} THEN 0 ELSE CHOOSE k \in resets : \A m \in resets : m <= k

\* every token of a candidate's name stands on its entry line or on a line
\* between the last reset and that line
NoStaleFragment ==
  \A n \in DOMAIN call.allDeadlines :
    LET c == call.allDeadlines[n]
    IN  \A t \in DOMAIN c.collegeName :
          \E k \in (LastReset(c.line) + 1)..c.line :
            \E p \in DOMAIN call.lines[k] : call.lines[k][p] = c.collegeName[t]

C26_Deduplicated ==
  (call.fn = "parseWithRegex" /\ call.returned)
    => /\ \A a, b \in DOMAIN call.result :
            (call.result[a].collegeName = call.result[b].collegeName
               /\ call.result[a].roundType = call.result[b].roundType) => a = b
       /\ \A a \in DOMAIN call.result :
            /\ \E n \in DOMAIN call.allDeadlines :
                 call.allDeadlines[n] = call.result[a]
            /\ \A n \in DOMAIN call.allDeadlines :
                 LET c == call.allDeadlines[n]
                     r == call.result[a]
                 IN  (c.collegeName = r.collegeName /\ c.roundType = r.roundType)
                       => \/ r.line < c.line
                          \/ (r.line = c.line /\ r.j <= c.j)
       /\ \A n \in DOMAIN call.allDeadlines :
            \E a \in DOMAIN call.result :
              /\ call.result[a].collegeName = call.allDeadlines[n].collegeName
              /\ call.result[a].roundType = call.allDeadlines[n].roundType

\* two dates of one line classified RD, the second dropped
C26_Witness ==
  /\ call.fn = "parseWithRegex"
  /\ call.returned
  /\ Len(call.lines) = 1
  /\ Len(call.allDeadlines) = 2
  /\ Len(call.result) = 1
  /\ call.result[1].j = 1

(***************************************************************************)
(* Provenance and the admin lock under interleaving (SpecRec).             *)
(***************************************************************************)
\* C27: whatever the interleaving of ingestion writes and administrator
\* operations, a row with admin_confirmed = true has source ADMIN.
C27_ConfirmedIsAdmin ==
  \A x \in college_rounds : x.admin_confirmed => x.source = "ADMIN"

\* a write of an ingestion worker as one step: the addressed row before it
\* (last.before) and after it
IngestionWrote ==
  last.w \in Ingestors /\ last.kind \in {"update", "refresh"}

\* C28: no write of the HTML or the PDF path turns admin_confirmed of the
\* row it addresses from true to false.
C28_IngestionKeepsLock ==
  (IngestionWrote /\ last.before.admin_confirmed)
    => \A x \in SelectById(college_rounds, last.before.id) : x.admin_confirmed

(***************************************************************************)
(* Finalization of a run's crawl_logs row (SpecRun).                       *)
(***************************************************************************)
HasLog(r) == \E x \in crawl_logs : x.id = run[r].logId

Finalized(r) == HasLog(r) /\ LogById(run[r].logId).run_finished_at # 0

\* C29: once the crawl_logs row of a run has its end time, no step writes
\* the row again and the run takes no further step: it is finalized at most
\* once and no progress update follows.
C29_FinalizedOnce ==
  [][\A r \in RunIds :
       Finalized(r)
         => /\ run'[r] = run[r]
            /\ LogById(run[r].logId) \in crawl_logs']_vars

\* a finalized run of more than one batch, whose row was written by a
\* progress update before
C29_Witness ==
  \E r \in RunIds :
    /\ Finalized(r)
    /\ run[r].n > CONCURRENCY
    /\ LogById(run[r].logId).colleges_attempted = run[r].n

(***************************************************************************)
(* Properties of the workers of one run (SpecWorkers).                     *)
(***************************************************************************)
\* the workers of the batch in flight
Executing == IF call.fn = "crawl" THEN DOMAIN call.workers ELSE {}

\* C30: the workers of a batch have different colleges, each worker reads
\* and writes only keys of its own college, and it addresses one key at a
\* time; so no two of them ever touch the same key of college_rounds.
C30_DisjointKeys ==
  call.fn = "crawl"
    => /\ \A a, b \in DOMAIN call.targets :
            call.targets[a] = call.targets[b] => a = b
       /\ \A a, b \in Executing :
            a # b => call.workers[a].touched \cap call.workers[b].touched = {}
       /\ \A a \in Executing :
            /\ \A key \in call.workers[a].touched : key[1] = call.workers[a].college
            /\ call.workers[a].key \in {NoKey} \cup call.workers[a].touched

\* two workers of one batch, each between the SELECT and the write of a round
\* of the same type
C30_Witness ==
  /\ call.fn = "crawl"
  /\ \E a, b \in Executing :
       /\ a # b
       /\ call.workers[a].pc = "write"
       /\ call.workers[b].pc = "write"
       /\ call.workers[a].key[2] = call.workers[b].key[2]

====
